---- MODULE Spec2Model ----
(***************************************************************************)
(* PeerChat relay server (src/server/main.py), its SQLite store            *)
(* (src/server/dependencies/modules/database/__init__.py) and the parts of *)
(* the client that issue commands on their own                             *)
(* (src/client/dependencies/modules/home_screen.py).                       *)
(*                                                                         *)
(* One session = one accepted connection = one handle_client thread.  A    *)
(* handler is cut into steps where it blocks in receive() or where a call  *)
(* (socket or SQLite I/O) sits between two uses of shared state, because   *)
(* that is where another handler thread can run.  Test-and-use sequences   *)
(* with no call in between (lines 92-94, 129-130, 158-159) are one step.   *)
(* The shared state is the dictionary `clients` and the database; every    *)
(* database method commits before it returns, so each is atomic.           *)
(*                                                                         *)
(* handle_client calls database.get_user(mac) with one argument while      *)
(* Database.get_user takes (ip, mac).  The sessions of this model look the *)
(* user up with Database.get_user(ip, mac) as add_user (line 59) does.     *)
(***************************************************************************)
EXTENDS Integers, Sequences, FiniteSets, TLC

\* ---- bounds ----
NSess == 2            \* connections accepted during a run
MaxFrames == 5        \* client inputs the server reads during a run: a version
                      \* tag, the identity and key of a handshake, a candidate
                      \* username, a command, a press on a chat button
MaxRows == 52         \* rows of one chat table in the runs that only fill and
                      \* fetch a chat
MaxQueued == 2        \* frames written to one connection in the codec runs
MaxPieces == 3        \* pieces in which the transport delivers one payload
MaxHeard == 4         \* frames the client hears, messages it sends, restarts
NameFrames == MaxFrames + 1   \* the same, in the runs that only connect
                              \* and submit usernames

\* ---- program constants ----
MsgLimit == 50        \* LIMIT 50 of get_user_chats
HEADER == 64          \* width of the length header of a frame
DEBUG == FALSE        \* __DEBUG__ of the server

Sessions == 1..NSess
Ips == {"ip1"}
Macs == {"m1", "m2", "m3"}
Keys == {"k1", "k2"}
Alnum == {"a", "b", "c"}
ALLOWED_CHARS == {"_", "@", " "}
\* candidate usernames a client submits
Candidates == {<<"a">>, <<"c">>, <<"_">>}

None == 0             \* Python None for _id / an absent row
NoChat == <<0, 0>>
NoName == <<>>

\* ---- Database (pure operators over the table values) ----

\* rows of `users` are [ip, mac, username, key]; user_id is the row's position
get_user(us, ip, mac) ==
  IF \E i \in DOMAIN us : us[i].ip = ip /\ us[i].mac = mac
  THEN CHOOSE i \in DOMAIN us : us[i].ip = ip /\ us[i].mac = mac
  ELSE None

get_user_id(us, id) == IF id \in DOMAIN us THEN id ELSE None

\* a variant that finds every username free
validate_username_free(us, username) == TRUE

validate_username(us, username) == ~ \E i \in DOMAIN us : us[i].username = username

\* UNIQUE username, UNIQUE (ip, mac): the INSERT raises IntegrityError otherwise
add_user_ok(us, ip, mac, username) ==
  /\ validate_username(us, username)
  /\ get_user(us, ip, mac) = None

add_user(us, ip, mac, username, key) ==
  Append(us, [ip |-> ip, mac |-> mac, username |-> username, key |-> key])

\* UPDATE users SET username: UNIQUE username still applies
change_username_ok(us, id, username) ==
  \A i \in DOMAIN us : us[i].username = username => i = id

change_username(us, id, username) == [us EXCEPT ![id].username = username]

change_key(us, id, key) == [us EXCEPT ![id].key = key]

\* chat_id = f'chat_{user_id_1}_{user_id_2}'
chat_id_of(user_id_1, user_id_2) == <<user_id_1, user_id_2>>

ChatIdsOf(cs) == {cs[i].chat_id : i \in DOMAIN cs}

\* chat_id is the PRIMARY KEY of chats
db_create_chat_ok(cs, user_id_1, user_id_2) ==
  chat_id_of(user_id_1, user_id_2) \notin ChatIdsOf(cs)

db_create_chat(cs, user_id_1, user_id_2) ==
  Append(cs, [chat_id |-> chat_id_of(user_id_1, user_id_2),
              user_1 |-> user_id_1, user_2 |-> user_id_2])

\* the table of chat <<a, b>> carries CHECK (sender_id = a OR sender_id = b);
\* a missing table raises OperationalError
\* a variant whose table has no CHECK constraint
add_message_ok_unchecked(ms, chat_id, sender_id) == chat_id \in DOMAIN ms

add_message_ok(ms, chat_id, sender_id) ==
  /\ chat_id \in DOMAIN ms
  /\ sender_id = chat_id[1] \/ sender_id = chat_id[2]

\* rows of a chat table are [message_id, sender_id, unread]
add_message(ms, chat_id, sender_id, unread) ==
  [ms EXCEPT ![chat_id] = Append(@, [message_id |-> Len(@) + 1,
                                     sender_id |-> sender_id,
                                     unread |-> unread])]

\* a variant that reports the first row
lastrowid_first(ms, chat_id) == 1

\* cursor.lastrowid after the INSERT
lastrowid(ms, chat_id) == Len(ms[chat_id])

get_message(ms, chat_id, message_id) == ms[chat_id][message_id]

\* a variant whose UPDATE runs over every chat table
read_messages_every_table(ms, chat_id) ==
  [c \in DOMAIN ms |-> [i \in DOMAIN ms[c] |-> [ms[c][i] EXCEPT !.unread = FALSE]]]

read_messages(ms, chat_id) ==
  [ms EXCEPT ![chat_id] = [i \in DOMAIN @ |-> [@[i] EXCEPT !.unread = FALSE]]]

\* ORDER BY message_id DESC LIMIT n, then reversed
\* a variant without DESC: the n oldest rows
LastN_oldest(rows, n) ==
  IF Len(rows) <= n THEN rows ELSE SubSeq(rows, 1, n)

LastN(rows, n) ==
  IF Len(rows) <= n THEN rows ELSE SubSeq(rows, Len(rows) - n + 1, Len(rows))

\* a variant that selects on user_1 alone
user_chat_rows_user_1_only(cs, user_id) ==
  SelectSeq(cs, LAMBDA c : c.user_1 = user_id)

user_chat_rows(cs, user_id) ==
  SelectSeq(cs, LAMBDA c : c.user_1 = user_id \/ c.user_2 = user_id)

chat_object(us, ms, chat, user_id) ==
  LET is_user_1 == chat.user_1 = user_id
      peer == IF is_user_1 THEN chat.user_2 ELSE chat.user_1
  IN [cmd |-> "chat", chat |-> chat.chat_id, is_user_1 |-> is_user_1,
      peer_id |-> peer, name |-> us[peer].username, key |-> us[peer].key,
      msgs |-> LastN(ms[chat.chat_id], MsgLimit), users |-> <<>>]

\* a variant without the WHERE clause
get_user_chats_every_chat(us, cs, ms, user_id) ==
  [i \in DOMAIN cs |-> chat_object(us, ms, cs[i], user_id)]

get_user_chats(us, cs, ms, user_id) ==
  LET rows == user_chat_rows(cs, user_id)
  IN [i \in DOMAIN rows |-> chat_object(us, ms, rows[i], user_id)]

\* ---- frames ----
Frame(cmd) ==
  [cmd |-> cmd, chat |-> NoChat, is_user_1 |-> FALSE, peer_id |-> None,
   name |-> NoName, key |-> "", msgs |-> <<>>, users |-> <<>>]

\* ---- get_username's character test (line 209) ----
Stripped(username) == SelectSeq(username, LAMBDA ch : ch \notin ALLOWED_CHARS)

\* a variant that is true of the empty string
isalnum_or_empty(str) == \A i \in DOMAIN str : str[i] \in Alnum

isalnum(str) == Len(str) > 0 /\ \A i \in DOMAIN str : str[i] \in Alnum

\* ---- state ----
VARIABLES
  users,        \* table users: sequence of [ip, mac, username, key]
  chats,        \* table chats: sequence of [chat_id, user_1, user_2]
  msgs,         \* the per-chat tables: chat_id -> sequence of rows
  clients,      \* main.clients: user id -> connection
  pc,           \* where each handle_client thread stands
  id,           \* handle_client's _id
  address,      \* address[0] of the accepted connection
  mac,          \* handle_client's mac (until the user row exists)
  key,          \* handle_client's key / user[4] (until the sync is over)
  key_changed,  \* handle_client's key_changed
  rename,       \* get_username was entered from change_username
  username,     \* the candidate get_username returned
  todo,         \* the chats of get_user_chats still to be streamed
  relay,        \* send_message's chat_id, msg_id and data['peer_id']
  sock,         \* server side of the connection: "open" or "closed"
  alive,        \* the client still holds its end of the connection
  inbox,        \* frames written to each connection, in order
  ncmds,        \* client inputs read so far (bounded by MaxFrames), less
                \* the inputs a run is granted on top of MaxFrames
  exc,          \* the exception that ended each handler ("" if none)
  sent,         \* history: one record per persisted message: the command's
                \* chat_id and peer_id, the sender, the row's id and unread
                \* flag, whether peer_id was registered at line 191, and
                \* the session that handled it (0: an earlier run)
  newest,       \* history: the connection that registered each user id last
  owed,         \* history: per session, the messages of its user's chats that
                \* were persisted, with the peer unregistered, before its sync
  \* the client at the other end of each connection (home_screen.py)
  loaded,       \* chats whose add_existing_chat thread has run
  notified,     \* chats whose button has NOTIFICATION_COLOR
  current,      \* ids.chat_sm.current: the chat screen shown (NoChat: none)
  seen,         \* how far HomeScreen.listen has read the connection
  readq,        \* read_messages commands written and not yet read by the server
  wire,         \* what the client wrote in its handshake and the server has
                \* not read yet; in the codec runs, the bytes written to
                \* connection 1 and not yet returned by recv
  \* communicator.py on connection 1
  rx,           \* receive(): where it is, data_length, data
  io,           \* history: the values passed to send and what receive returned
  app           \* the client program: one chat's screen, cache, file and threads

vars == <<users, chats, msgs, clients, pc, id, address, mac, key, key_changed,
          rename, username, todo, relay, sock, alive, inbox, ncmds, exc, sent,
          newest, owed, loaded, notified, current, seen, readq, wire, rx, io, app>>

cvars == <<loaded, notified, current, seen, readq, wire, rx, io, app>>

db == <<users, chats, msgs>>
locals == <<id, address, mac, key, key_changed, rename, username, todo, relay>>
hist == <<sent, newest, owed>>

NoRelay == [chat_id |-> NoChat, msg_id |-> 0, peer_id |-> None]

\* The store is a file that outlives the server process.  The server starts on
\* the store an earlier run left: users 1 and 2 registered, user 1 created the
\* chat with user 2 and sent one message while user 2 was not connected.
Users0 ==
  << [ip |-> "ip1", mac |-> "m1", username |-> <<"a">>, key |-> "k1"],
     [ip |-> "ip1", mac |-> "m2", username |-> <<"b">>, key |-> "k1"] >>

InitWith(granted) ==
  /\ users = Users0
  /\ chats = << [chat_id |-> <<1, 2>>, user_1 |-> 1, user_2 |-> 2] >>
  /\ msgs = (<<1, 2>> :> << [message_id |-> 1, sender_id |-> 1, unread |-> TRUE] >>)
  /\ clients = <<>>
  /\ pc = [s \in Sessions |-> "idle"]
  /\ id = [s \in Sessions |-> None]
  /\ address = [s \in Sessions |-> ""]
  /\ mac = [s \in Sessions |-> ""]
  /\ key = [s \in Sessions |-> ""]
  /\ key_changed = [s \in Sessions |-> FALSE]
  /\ rename = [s \in Sessions |-> FALSE]
  /\ username = [s \in Sessions |-> NoName]
  /\ todo = [s \in Sessions |-> <<>>]
  /\ relay = [s \in Sessions |-> NoRelay]
  /\ sock = [s \in Sessions |-> "open"]
  /\ alive = [s \in Sessions |-> TRUE]
  /\ inbox = [s \in Sessions |-> <<>>]
  /\ ncmds = 0 - granted
  /\ exc = [s \in Sessions |-> ""]
  /\ sent = {[chat_id |-> <<1, 2>>, msg_id |-> 1, sender_id |-> 1, peer_id |-> 2,
              present |-> FALSE, unread |-> TRUE, by |-> 0]}
  /\ newest = <<>>
  /\ owed = [s \in Sessions |-> {}]
  /\ loaded = [s \in Sessions |-> {}]
  /\ notified = [s \in Sessions |-> {}]
  /\ current = [s \in Sessions |-> NoChat]
  /\ seen = [s \in Sessions |-> 0]
  /\ readq = [s \in Sessions |-> {}]
  /\ wire = [s \in Sessions |-> <<>>]
  /\ rx = [at |-> "header", data_length |-> 0, data |-> <<>>, pieces |-> 0,
           whole |-> TRUE]
  /\ io = [sent |-> <<>>, got |-> <<>>, writing |-> [t \in Sessions |-> <<>>]]
  /\ app = [screen |-> FALSE, loading |-> FALSE, heard |-> 0,
            queue |-> <<>>, applied |-> {}, cache |-> {},
            file |-> [whole |-> TRUE, map |-> {}],
            listen |-> "receive", loader |-> "off", sender |-> "off",
            local |-> {}, history |-> <<>>, held |-> "", encrypted |-> <<>>,
            pool |-> {}, rendered |-> {}, out |-> {}, raised |-> {},
            main |-> "home", up |-> <<>>, down |-> <<>>, server |-> "loop",
            reads |-> <<>>]

Init == InitWith(0)

\* ---- sending and failing ----

\* `k in clients`
Present(cl, k) == k \in DOMAIN cl
\* `del clients[k]`
Del(cl, k) == [x \in (DOMAIN cl) \ {k} |-> cl[x]]
\* `clients[k] = c`
Put(cl, k, c) == (k :> c) @@ cl

Snd(to, frame) == [to |-> to, frame |-> frame]

\* A list of send() calls made in order.  A send to a connection whose client
\* is gone either still succeeds or raises (ConnectionResetError, or
\* BrokenPipeError which handle_client's first except clause does not name).
\* <<k, e>>: the first k sends were written, and e was raised by the next.
Outcomes(sends) ==
  {<<Len(sends), "ok">>} \cup
  {<<k, e>> : k \in {j \in 0..(Len(sends) - 1) : ~alive[sends[j + 1].to]},
              e \in {"ConnectionResetError", "BrokenPipeError"}}

RECURSIVE Deliver(_, _, _)
Deliver(ib, sends, k) ==
  IF k = 0 THEN ib
  ELSE LET d == Deliver(ib, sends, k - 1)
       IN [d EXCEPT ![sends[k].to] = Append(@, sends[k].frame)]

\* handle_client's except clauses (lines 128-135) applied to registry cl
\* the exceptions the clause at line 128 names
Caught(e) == e \in {"ConnectionResetError", "ConnectionAbortedError"}

\* a variant of the clause that closes without touching the registry
ExceptClients_keep(e, cl, _id) == cl

ExceptClients(e, cl, _id) ==
  IF Caught(e) /\ Present(cl, _id) THEN Del(cl, _id) ELSE cl

ExceptPc(e) == IF Caught(e) THEN "closed" ELSE "crashed"

ExceptSock(s, e) == IF Caught(e) THEN [sock EXCEPT ![s] = "closed"] ELSE sock

\* the handler of s ends with exception e; cl is the registry and _id the
\* value of _id at the raise
Raise(s, e, cl, _id) ==
  /\ pc' = [pc EXCEPT ![s] = ExceptPc(e)]
  /\ exc' = [exc EXCEPT ![s] = e]
  /\ clients' = ExceptClients(e, cl, _id)
  /\ id' = [id EXCEPT ![s] = _id]
  /\ sock' = ExceptSock(s, e)
  /\ todo' = [todo EXCEPT ![s] = <<>>]
  /\ relay' = [relay EXCEPT ![s] = NoRelay]
  /\ username' = [username EXCEPT ![s] = NoName]
  /\ key' = [key EXCEPT ![s] = ""]
  /\ mac' = [mac EXCEPT ![s] = ""]
  /\ key_changed' = [key_changed EXCEPT ![s] = FALSE]
  /\ rename' = [rename EXCEPT ![s] = FALSE]
  /\ UNCHANGED address

\* the client's windows end with its connection
Quit(s) ==
  /\ loaded' = [loaded EXCEPT ![s] = {}]
  /\ notified' = [notified EXCEPT ![s] = {}]
  /\ current' = [current EXCEPT ![s] = NoChat]
  /\ seen' = [seen EXCEPT ![s] = 0]
  /\ readq' = [readq EXCEPT ![s] = {}]
  /\ wire' = [wire EXCEPT ![s] = <<>>]
  /\ UNCHANGED <<rx, io, app>>

\* ---- accept loop (__main__, listen) ----
Accept(s) ==
  /\ pc[s] = "idle" /\ ncmds < MaxFrames
  /\ \A t \in Sessions : t < s => pc[t] # "idle"
  /\ ncmds' = ncmds + 1
  /\ \E ip \in Ips : address' = [address EXCEPT ![s] = ip]
  /\ inbox' = [inbox EXCEPT ![s] = Append(@, Frame("Connected"))]
  /\ pc' = [pc EXCEPT ![s] = "handshake"]
  /\ UNCHANGED <<db, clients, id, mac, key, key_changed, rename, username, todo,
                 relay, sock, exc, alive, hist, cvars>>

\* ---- the client end ----
\* receive() blocks at lines 61, 63, 101 and 208
Reading(s) == pc[s] \in {"handshake", "username", "active"}

\* The client closes its end while the handler is not in receive(): either
\* the handler is about to write to it (sync, or the reply after a username
\* was accepted), or the handler has ended by an exception that left the
\* socket open and registered.  Elsewhere the close is seen at the next
\* receive(), which is Disconnect.
ClientClose(s) ==
  /\ \/ pc[s] \in {"sync", "commit"}
     \/ pc[s] = "crashed" /\ \E u \in DOMAIN clients : clients[u] = s
  /\ alive[s]
  /\ alive' = [alive EXCEPT ![s] = FALSE]
  /\ Quit(s)
  /\ UNCHANGED <<db, clients, pc, locals, sock, exc, inbox, ncmds, hist>>

\* the connection ends while the handler is blocked in receive(), or the
\* handler comes back to receive() on an ended connection: _recv gets no
\* data and raises ConnectionResetError, lines 128-132
Disconnect(s) ==
  /\ Reading(s)
  /\ alive' = [alive EXCEPT ![s] = FALSE]
  /\ Raise(s, "ConnectionResetError", clients, id[s])
  /\ Quit(s)
  /\ UNCHANGED <<db, inbox, ncmds, hist>>

\* ---- handle_client, lines 59-83 ----
Identity(_id, _username) ==
  [Frame("identity") EXCEPT !.peer_id = _id, !.name = _username]

HandshakeUnregistered(s) ==
  /\ pc[s] = "handshake" /\ alive[s] /\ ncmds < MaxFrames
  /\ ncmds' = ncmds + 1
  /\ \E m \in Macs, k \in Keys :
       /\ get_user(users, address[s], m) = None
       /\ mac' = [mac EXCEPT ![s] = m]
       /\ key' = [key EXCEPT ![s] = k]
  /\ inbox' = [inbox EXCEPT ![s] = Append(@, Frame("unregistered"))]
  /\ pc' = [pc EXCEPT ![s] = "username"]
  /\ UNCHANGED <<db, clients, id, address, key_changed, rename, username, todo,
                 relay, sock, exc, alive, hist, cvars>>

\* the other participant of a chat
OtherOf(chat_id, user_id) == IF chat_id[1] = user_id THEN chat_id[2] ELSE chat_id[1]

\* history: the messages a sync of user_id owes it
Owed(ms, user_id) ==
  {m \in sent : /\ ~m.present
                /\ m.peer_id = user_id /\ m.sender_id # user_id
                /\ user_id \in {m.chat_id[1], m.chat_id[2]}
                /\ m.msg_id > Len(ms[m.chat_id]) - MsgLimit}

\* the client sent MAC address m and public key k
HandshakeRegisteredWith(s, m, k) ==
  /\ pc[s] = "handshake" /\ alive[s] /\ ncmds < MaxFrames
  /\ ncmds' = ncmds + 1
  /\ LET user == get_user(users, address[s], m)
         changed == k # users[user].key
         us == IF changed THEN change_key(users, user, k) ELSE users
     IN /\ user # None
        /\ users' = us
        /\ key_changed' = [key_changed EXCEPT ![s] = changed]
        /\ key' = [key EXCEPT ![s] = IF changed THEN us[user].key ELSE ""]
        /\ id' = [id EXCEPT ![s] = user]
        /\ inbox' = [inbox EXCEPT ![s] =
                       @ \o <<Frame("registered"), Identity(user, us[user].username)>>]
        /\ todo' = [todo EXCEPT ![s] = get_user_chats(us, chats, msgs, user)]
        /\ owed' = [owed EXCEPT ![s] = Owed(msgs, user)]
  /\ pc' = [pc EXCEPT ![s] = "sync"]
  /\ UNCHANGED <<chats, msgs, clients, address, mac, rename, username, relay,
                 sock, exc, alive, sent, newest>>

HandshakeRegistered(s) ==
  /\ \E m \in Macs, k \in Keys : HandshakeRegisteredWith(s, m, k)
  /\ UNCHANGED cvars

\* ---- get_username, lines 199-215 ----
GetUsernameWith(s, name) ==
  /\ pc[s] = "username" /\ alive[s] /\ ncmds < MaxFrames
  /\ ncmds' = ncmds + 1
  /\ IF ~isalnum(Stripped(name))
     THEN /\ inbox' = [inbox EXCEPT ![s] = Append(@, Frame("invalid username"))]
          /\ UNCHANGED <<pc, username>>
     ELSE IF validate_username(users, name)
     THEN /\ inbox' = [inbox EXCEPT ![s] = Append(@, Frame("username accepted"))]
          /\ username' = [username EXCEPT ![s] = name]
          /\ pc' = [pc EXCEPT ![s] = "commit"]
     ELSE /\ inbox' = [inbox EXCEPT ![s] = Append(@, Frame("taken"))]
          /\ UNCHANGED <<pc, username>>
  /\ UNCHANGED <<db, clients, id, address, mac, key, key_changed, rename, todo,
                 relay, sock, exc, alive, hist>>

GetUsername(s) ==
  /\ \E name \in Candidates : GetUsernameWith(s, name)
  /\ UNCHANGED cvars

\* `clients[_id] = client`, with the history of who registered last
Register(s, _id) ==
  /\ clients' = Put(clients, _id, s)
  /\ newest' = Put(newest, _id, s)

\* ---- handle_client, lines 68-69, 82-83, 98 (the user was unregistered) ----
RegisterUser(s) ==
  /\ pc[s] = "commit" /\ ~rename[s]
  /\ IF ~add_user_ok(users, address[s], mac[s], username[s])
     THEN /\ Raise(s, "IntegrityError", clients, id[s])
          /\ UNCHANGED <<db, inbox, newest>>
     ELSE LET us == add_user(users, address[s], mac[s], username[s], key[s])
              user == get_user(us, address[s], mac[s])
              sends == <<Snd(s, Identity(user, us[user].username))>>
          IN /\ users' = us
             /\ UNCHANGED <<chats, msgs>>
             /\ \E o \in Outcomes(sends) :
                  /\ inbox' = Deliver(inbox, sends, o[1])
                  /\ IF o[2] = "ok"
                     THEN /\ Register(s, user)
                          /\ id' = [id EXCEPT ![s] = user]
                          /\ pc' = [pc EXCEPT ![s] = "active"]
                          /\ mac' = [mac EXCEPT ![s] = ""]
                          /\ key' = [key EXCEPT ![s] = ""]
                          /\ username' = [username EXCEPT ![s] = NoName]
                          /\ UNCHANGED <<address, key_changed, rename, todo, relay,
                                         sock, exc>>
                     ELSE /\ Raise(s, o[2], clients, user)
                          /\ UNCHANGED newest
  /\ UNCHANGED <<alive, ncmds, sent, owed, cvars>>

\* ---- handle_client, lines 86-98 (the user was registered) ----
ChangeKey(_id, _key) ==
  [Frame("change_key") EXCEPT !.peer_id = _id, !.key = _key]

\* one send(chat, client) and, when the key changed and the peer is
\* registered, one change_key to the peer's connection (lines 88-94)
\* a variant that notifies the peer whether or not the key changed
ChatSends_any_key(s, chat) ==
  <<Snd(s, chat)>> \o
  (IF Present(clients, chat.peer_id) /\ chat.peer_id # id[s]
   THEN <<Snd(clients[chat.peer_id], ChangeKey(id[s], key[s]))>>
   ELSE <<>>)

ChatSends(s, chat) ==
  <<Snd(s, chat)>> \o
  (IF key_changed[s] /\ Present(clients, chat.peer_id) /\ chat.peer_id # id[s]
   THEN <<Snd(clients[chat.peer_id], ChangeKey(id[s], key[s]))>>
   ELSE <<>>)

RECURSIVE SyncSends(_, _)
SyncSends(s, chat_list) ==
  IF chat_list = <<>> THEN <<Snd(s, Frame("sync complete"))>>
  ELSE ChatSends(s, Head(chat_list)) \o SyncSends(s, Tail(chat_list))

\* the loop over the chats, `sync complete`, and clients[_id] = client
SyncStream(s) ==
  /\ pc[s] = "sync"
  /\ LET sends == SyncSends(s, todo[s])
     IN \E o \in Outcomes(sends) :
          /\ inbox' = Deliver(inbox, sends, o[1])
          /\ IF o[2] = "ok"
             THEN /\ Register(s, id[s])
                  /\ pc' = [pc EXCEPT ![s] = "active"]
                  /\ key' = [key EXCEPT ![s] = ""]
                  /\ key_changed' = [key_changed EXCEPT ![s] = FALSE]
                  /\ todo' = [todo EXCEPT ![s] = <<>>]
                  /\ UNCHANGED <<id, address, mac, rename, username, relay, sock, exc>>
             ELSE /\ Raise(s, o[2], clients, id[s])
                  /\ UNCHANGED newest
  /\ UNCHANGED <<db, alive, ncmds, sent, owed, cvars>>

\* ---- the command loop, lines 100-127 ----
\* receive() at line 101 returns a command
\* a variant that also reads a command while the chats are being streamed
Command_while_syncing(s) == pc[s] \in {"active", "sync"} /\ alive[s] /\ ncmds < MaxFrames

Command(s) == pc[s] = "active" /\ alive[s] /\ ncmds < MaxFrames

AllChatIds == {chat_id_of(a, b) : a \in DOMAIN users, b \in DOMAIN users}

\* create_chat, lines 138-173
CreateChatFrame(chat_id, is_user_1, peer) ==
  [Frame("create_chat") EXCEPT !.chat = chat_id, !.is_user_1 = is_user_1,
     !.peer_id = peer, !.name = users[peer].username, !.key = users[peer].key]

\* _clients of lines 155-159
NotifyList(cl, _id, peer_id) ==
  <<cl[_id]>> \o
  (IF Present(cl, peer_id) /\ peer_id # _id THEN <<cl[peer_id]>> ELSE <<>>)

CreateChatWith(s, peer_id) ==
  /\ Command(s)
  /\ ncmds' = ncmds + 1
  /\ IF ~db_create_chat_ok(chats, id[s], peer_id)
     THEN /\ Raise(s, "IntegrityError", clients, id[s])
          /\ UNCHANGED <<db, inbox>>
     ELSE LET chat_id == chat_id_of(id[s], peer_id) IN
          /\ chats' = db_create_chat(chats, id[s], peer_id)
          /\ msgs' = (chat_id :> <<>>) @@ msgs
          /\ UNCHANGED users
          /\ IF ~Present(clients, id[s])
             THEN /\ Raise(s, "KeyError", clients, id[s])
                  /\ UNCHANGED inbox
             ELSE LET _clients == NotifyList(clients, id[s], peer_id)
                      sends == [i \in DOMAIN _clients |->
                                  Snd(_clients[i],
                                      IF _clients[i] = s
                                      THEN CreateChatFrame(chat_id, TRUE, peer_id)
                                      ELSE CreateChatFrame(chat_id, FALSE, id[s]))]
                  IN \E o \in Outcomes(sends) :
                       /\ inbox' = Deliver(inbox, sends, o[1])
                       /\ IF o[2] = "ok"
                          THEN UNCHANGED <<clients, pc, locals, sock, exc>>
                          ELSE Raise(s, o[2], clients, id[s])
  /\ UNCHANGED <<alive, hist>>

CreateChat(s) ==
  /\ \E peer_id \in DOMAIN users : CreateChatWith(s, peer_id)
  /\ UNCHANGED cvars

\* change_username, lines 106-107: the echo
ChangeUsernameEcho(s) ==
  /\ Command(s)
  /\ ncmds' = ncmds + 1
  /\ inbox' = [inbox EXCEPT ![s] = Append(@, Frame("change_username"))]
  /\ pc' = [pc EXCEPT ![s] = "rename_del"]
  /\ UNCHANGED <<db, clients, locals, sock, exc, alive, hist, cvars>>

\* change_username, lines 110-111: del clients[_id], then get_username
RenameDeregister(s) ==
  /\ pc[s] = "rename_del"
  /\ IF Present(clients, id[s])
     THEN /\ clients' = Del(clients, id[s])
          /\ pc' = [pc EXCEPT ![s] = "username"]
          /\ rename' = [rename EXCEPT ![s] = TRUE]
          /\ UNCHANGED <<id, address, mac, key, key_changed, username, todo, relay,
                         sock, exc>>
     ELSE Raise(s, "KeyError", clients, id[s])
  /\ UNCHANGED <<db, alive, inbox, ncmds, hist, cvars>>

\* change_username, lines 112-115
RenameCommit(s) ==
  /\ pc[s] = "commit" /\ rename[s]
  /\ IF change_username_ok(users, id[s], username[s])
     THEN /\ users' = change_username(users, id[s], username[s])
          /\ Register(s, id[s])
          /\ pc' = [pc EXCEPT ![s] = "active"]
          /\ rename' = [rename EXCEPT ![s] = FALSE]
          /\ username' = [username EXCEPT ![s] = NoName]
          /\ UNCHANGED <<id, address, mac, key, key_changed, todo, relay, sock, exc>>
     ELSE /\ Raise(s, "IntegrityError", clients, id[s])
          /\ UNCHANGED <<users, newest>>
  /\ UNCHANGED <<chats, msgs, alive, inbox, ncmds, sent, owed, cvars>>

\* search_peer, lines 117-121; get_users is `username LIKE %pattern%`,
\* where _ in the pattern stands for any one character
LikeAt(name, pattern, at) ==
  \A j \in DOMAIN pattern : pattern[j] = "_" \/ pattern[j] = name[at + j - 1]

Like(name, pattern) ==
  \E at \in 1..(Len(name) - Len(pattern) + 1) : LikeAt(name, pattern, at)

get_users(us, pattern) ==
  LET ids == [i \in DOMAIN us |-> i]
  IN SelectSeq(ids, LAMBDA i : Like(us[i].username, pattern))

SearchPeerWith(s, pattern) ==
  /\ Command(s)
  /\ ncmds' = ncmds + 1
  /\ inbox' = [inbox EXCEPT ![s] =
                 Append(@, [Frame("search_peer") EXCEPT !.users = get_users(users, pattern)])]
  /\ UNCHANGED <<db, clients, pc, locals, sock, exc, alive, hist>>

SearchPeer(s) ==
  /\ \E pattern \in Candidates : SearchPeerWith(s, pattern)
  /\ UNCHANGED cvars

\* send_message, line 188
self_chat(_id, peer_id) == _id = peer_id

\* a variant of line 191 without `and not self_chat`
relays_without_self_test(cl, _id, peer_id) == Present(cl, peer_id)

\* send_message, line 191
relays(cl, _id, peer_id) == Present(cl, peer_id) /\ ~self_chat(_id, peer_id)

\* send_message, lines 185-191: persist, then test `peer_id in clients`
SendMessageWith(s, chat_id, peer_id) ==
  /\ Command(s)
  /\ ncmds' = ncmds + 1
  /\ IF ~add_message_ok(msgs, chat_id, id[s])
     THEN /\ Raise(s, IF chat_id \in DOMAIN msgs THEN "IntegrityError"
                      ELSE "OperationalError", clients, id[s])
          /\ UNCHANGED <<db, sent>>
     ELSE LET ms == add_message(msgs, chat_id, id[s], ~self_chat(id[s], peer_id))
              msg_id == lastrowid(ms, chat_id)
          IN /\ msgs' = ms
             /\ sent' = sent \cup {[chat_id |-> chat_id, msg_id |-> msg_id,
                                    sender_id |-> id[s], peer_id |-> peer_id,
                                    present |-> Present(clients, peer_id),
                                    unread |-> get_message(ms, chat_id, msg_id).unread,
                                    by |-> s]}
             /\ IF relays(clients, id[s], peer_id)
                THEN /\ pc' = [pc EXCEPT ![s] = "relay"]
                     /\ relay' = [relay EXCEPT ![s] =
                                    [chat_id |-> chat_id, msg_id |-> msg_id,
                                     peer_id |-> peer_id]]
                ELSE UNCHANGED <<pc, relay>>
             /\ UNCHANGED <<users, chats, clients, id, address, mac, key,
                            key_changed, rename, username, todo, sock, exc>>
  /\ UNCHANGED <<alive, inbox, newest, owed>>

SendMessage(s) ==
  /\ \E chat_id \in AllChatIds, peer_id \in DOMAIN users :
       SendMessageWith(s, chat_id, peer_id)
  /\ UNCHANGED cvars

\* send_message, lines 192-196: get_message, fetch clients[peer_id], send
ReceiveMessage(chat_id, row) ==
  [Frame("receive_message") EXCEPT !.chat = chat_id, !.msgs = <<row>>]

Relay(s) ==
  /\ pc[s] = "relay"
  /\ IF ~Present(clients, relay[s].peer_id)
     THEN /\ Raise(s, "KeyError", clients, id[s])
          /\ UNCHANGED inbox
     ELSE LET row == get_message(msgs, relay[s].chat_id, relay[s].msg_id)
              sends == <<Snd(clients[relay[s].peer_id],
                             ReceiveMessage(relay[s].chat_id, row))>>
          IN \E o \in Outcomes(sends) :
               /\ inbox' = Deliver(inbox, sends, o[1])
               /\ IF o[2] = "ok"
                  THEN /\ pc' = [pc EXCEPT ![s] = "active"]
                       /\ relay' = [relay EXCEPT ![s] = NoRelay]
                       /\ UNCHANGED <<clients, id, address, mac, key, key_changed,
                                      rename, username, todo, sock, exc>>
                  ELSE Raise(s, o[2], clients, id[s])
  /\ UNCHANGED <<db, alive, ncmds, hist, cvars>>

\* read_messages, lines 126-127
ReadMessagesWith(s, chat_id) ==
  /\ Command(s)
  /\ ncmds' = ncmds + 1
  /\ IF chat_id \in DOMAIN msgs
     THEN /\ msgs' = read_messages(msgs, chat_id)
          /\ UNCHANGED <<users, chats, clients, pc, locals, sock, exc>>
     ELSE /\ Raise(s, "OperationalError", clients, id[s])
          /\ UNCHANGED db
  /\ UNCHANGED <<alive, inbox, hist>>

ReadMessages(s) ==
  /\ \E chat_id \in AllChatIds : ReadMessagesWith(s, chat_id)
  /\ UNCHANGED cvars

\* ---- the server with clients that may send any command ----
Next ==
  \E s \in Sessions :
    \/ Accept(s)
    \/ ClientClose(s)
    \/ Disconnect(s)
    \/ HandshakeUnregistered(s)
    \/ HandshakeRegistered(s)
    \/ GetUsername(s)
    \/ RegisterUser(s)
    \/ SyncStream(s)
    \/ CreateChat(s)
    \/ ChangeUsernameEcho(s)
    \/ RenameDeregister(s)
    \/ RenameCommit(s)
    \/ SearchPeer(s)
    \/ SendMessage(s)
    \/ Relay(s)
    \/ ReadMessages(s)

Spec == Init /\ [][Next]_vars

\* ---- connecting, registering and renaming alone ----
InitNames == InitWith(NameFrames - MaxFrames)

NextNames ==
  \E s \in Sessions :
    \/ Accept(s)
    \/ ClientClose(s)
    \/ Disconnect(s)
    \/ HandshakeUnregistered(s)
    \/ HandshakeRegistered(s)
    \/ GetUsername(s)
    \/ RegisterUser(s)
    \/ SyncStream(s)
    \/ ChangeUsernameEcho(s)
    \/ RenameDeregister(s)
    \/ RenameCommit(s)

SpecNames == InitNames /\ [][NextNames]_vars

\* ---- connecting, creating chats and sending, with one input more than
\* NameFrames, and with clients that connect again ----
\* the accept loop accepts a further connection; the model keeps it where it
\* kept a connection that is closed, deregistered and whose handler has ended
Reaccept(s) ==
  /\ pc[s] = "closed" /\ ~alive[s] /\ ncmds < MaxFrames
  /\ \A u \in DOMAIN clients : clients[u] # s
  /\ \A t \in Sessions : pc[t] # "idle"
  /\ ncmds' = ncmds + 1
  /\ \E ip \in Ips : address' = [address EXCEPT ![s] = ip]
  /\ inbox' = [inbox EXCEPT ![s] = <<Frame("Connected")>>]
  /\ pc' = [pc EXCEPT ![s] = "handshake"]
  /\ alive' = [alive EXCEPT ![s] = TRUE]
  /\ sock' = [sock EXCEPT ![s] = "open"]
  /\ exc' = [exc EXCEPT ![s] = ""]
  /\ id' = [id EXCEPT ![s] = None]
  /\ owed' = [owed EXCEPT ![s] = {}]
  /\ UNCHANGED <<db, clients, mac, key, key_changed, rename, username, todo,
                 relay, sent, newest, cvars>>

NextRelay ==
  \E s \in Sessions :
    \/ Accept(s)
    \/ Reaccept(s)
    \/ Disconnect(s)
    \/ HandshakeRegistered(s)
    \/ SyncStream(s)
    \/ CreateChat(s)
    \/ SendMessage(s)
    \/ Relay(s)

SpecRelay == InitWith(NameFrames - MaxFrames + 1) /\ [][NextRelay]_vars

\* ---- the same with every kind of candidate username: empty, whitelisted
\* punctuation only, mixed, with a character outside the whitelist, in use ----
GetUsernameOf(s) ==
  /\ \E name \in {<<>>, <<"_">>, <<"@", " ">>, <<"c">>, <<"c", "_">>, <<"c", "!">>,
                   <<"a">>} : GetUsernameWith(s, name)
  /\ UNCHANGED cvars

NextUsernames ==
  \E s \in Sessions :
    \/ Accept(s)
    \/ ClientClose(s)
    \/ Disconnect(s)
    \/ HandshakeUnregistered(s)
    \/ HandshakeRegistered(s)
    \/ GetUsernameOf(s)
    \/ RegisterUser(s)
    \/ SyncStream(s)
    \/ ChangeUsernameEcho(s)
    \/ RenameDeregister(s)
    \/ RenameCommit(s)

SpecUsernames == Init /\ [][NextUsernames]_vars

\* ---- the server with the clients of this repository ----
\* the chat objects and create_chat frames the client of s was sent
ChatFrames(s) ==
  {i \in DOMAIN inbox[s] : inbox[s][i].cmd \in {"chat", "create_chat"}}

\* HomeScreen.add_existing_chat, lines 214-268: started by create_chat (line
\* 318) for a chat object that carries messages
AddExistingChat(s) ==
  /\ alive[s]
  /\ \E i \in ChatFrames(s) :
       LET chat == inbox[s][i]
           unread == \E r \in DOMAIN chat.msgs :
                       chat.msgs[r].unread /\ chat.msgs[r].sender_id = chat.peer_id
       IN /\ chat.cmd = "chat" /\ chat.msgs # <<>>
          /\ chat.chat \notin loaded[s]
          /\ loaded' = [loaded EXCEPT ![s] = @ \cup {chat.chat}]
          /\ IF unread /\ current[s] # chat.chat
             THEN /\ notified' = [notified EXCEPT ![s] = @ \cup {chat.chat}]
                  /\ UNCHANGED readq
             ELSE /\ readq' = [readq EXCEPT ![s] = @ \cup {chat.chat}]
                  /\ UNCHANGED notified
  /\ UNCHANGED <<app, rx, io, wire, db, clients, pc, locals, sock, exc, alive, inbox, ncmds, hist,
                 current, seen>>

\* HomeScreen.on_release_peer_chat (lines 270-281) and ChatScreen.on_enter
\* (lines 369-377): the user presses the button of a chat
OpenChat(s) ==
  /\ alive[s] /\ ncmds < MaxFrames
  /\ ncmds' = ncmds + 1
  /\ \E i \in ChatFrames(s) :
       LET c == inbox[s][i].chat IN
       IF current[s] # c
       THEN /\ current' = [current EXCEPT ![s] = c]
            /\ notified' = [notified EXCEPT ![s] = @ \ {c}]
            /\ readq' = [readq EXCEPT ![s] = IF c \in notified[s] THEN @ \cup {c} ELSE @]
       ELSE /\ current' = [current EXCEPT ![s] = NoChat]
            /\ UNCHANGED <<notified, readq>>
  /\ UNCHANGED <<app, rx, io, wire, db, clients, pc, locals, sock, exc, alive, inbox, hist, loaded,
                 seen>>

\* HomeScreen.listen, lines 172-198: the next frame that changes a window.
\* A chat created by this client is shown at once (create_chat, lines
\* 319-321); a message is marked read when its chat is shown (lines 192-196)
\* and notified otherwise (line 198).
Heard == {"create_chat", "receive_message"}

Listen(s) ==
  /\ alive[s]
  /\ \E i \in DOMAIN inbox[s] :
       LET data == inbox[s][i] IN
       /\ i > seen[s] /\ data.cmd \in Heard
       /\ \A j \in (seen[s] + 1)..(i - 1) : inbox[s][j].cmd \notin Heard
       /\ seen' = [seen EXCEPT ![s] = i]
       /\ IF data.cmd = "create_chat"
          THEN /\ current' = [current EXCEPT ![s] = IF data.is_user_1 THEN data.chat ELSE @]
               /\ UNCHANGED <<notified, readq>>
          ELSE IF current[s] = data.chat
          THEN /\ readq' = [readq EXCEPT ![s] = @ \cup {data.chat}]
               /\ UNCHANGED <<notified, current>>
          ELSE /\ notified' = [notified EXCEPT ![s] = @ \cup {data.chat}]
               /\ UNCHANGED <<readq, current>>
  /\ UNCHANGED <<app, rx, io, wire, db, clients, pc, locals, sock, exc, alive, inbox, ncmds, hist,
                 loaded>>

\* SearchPeer.on_release_peer_button, lines 616-632: create_chat is sent for a
\* peer with whom the client shows no chat
ClientCreateChat(s) ==
  /\ \E peer_id \in DOMAIN users :
       /\ \A i \in ChatFrames(s) : inbox[s][i].peer_id # peer_id
       /\ CreateChatWith(s, peer_id)
  /\ UNCHANGED cvars

\* ChatScreen.send_message, lines 426-433: chat_id and peer_id of a chat shown
ClientSendMessage(s) ==
  /\ \E i \in ChatFrames(s) : SendMessageWith(s, inbox[s][i].chat, inbox[s][i].peer_id)
  /\ UNCHANGED cvars

\* the server reads a read_messages command the client wrote
ClientReadMessages(s) ==
  /\ \E chat_id \in readq[s] :
       /\ ReadMessagesWith(s, chat_id)
       /\ readq' = [readq EXCEPT ![s] = @ \ {chat_id}]
  /\ UNCHANGED <<loaded, notified, current, seen, wire, rx, io, app>>

NextClients ==
  \E s \in Sessions :
    \/ Accept(s)
    \/ ClientClose(s)
    \/ Disconnect(s)
    \/ HandshakeUnregistered(s)
    \/ HandshakeRegistered(s)
    \/ GetUsername(s)
    \/ RegisterUser(s)
    \/ SyncStream(s)
    \/ ChangeUsernameEcho(s)
    \/ RenameDeregister(s)
    \/ RenameCommit(s)
    \/ SearchPeer(s)
    \/ Relay(s)
    \/ AddExistingChat(s)
    \/ OpenChat(s)
    \/ Listen(s)
    \/ ClientCreateChat(s)
    \/ ClientSendMessage(s)
    \/ ClientReadMessages(s)

SpecClients == Init /\ [][NextClients]_vars

\* ---- known users that connect and send messages in the chats their
\* clients show, with one more input ----
NextOrder ==
  \E s \in Sessions :
    \/ Accept(s)
    \/ Disconnect(s)
    \/ HandshakeRegistered(s)
    \/ SyncStream(s)
    \/ ClientSendMessage(s)
    \/ Relay(s)

SpecOrder == InitNames /\ [][NextOrder]_vars

\* ---- the handshake with the lookup as handle_client writes it ----
\* def get_user(self, ip, mac): the parameters after self
get_user_params == <<"ip", "mac">>
\* database.get_user(mac), lines 62 and 76: the arguments passed
lookup_args == <<"mac">>
\* a call binds when it passes one argument for each parameter (neither has
\* a default); otherwise Python raises TypeError
Binds(params, args) == Len(args) = Len(params)

\* client, SplashScreen lines 247-259: having read `Connected`, the client
\* sends its MAC address and then its public key
ClientIdentifies(s) ==
  /\ alive[s] /\ seen[s] = 0 /\ inbox[s] # <<>>
  /\ seen' = [seen EXCEPT ![s] = 1]
  /\ \E m \in Macs, k \in Keys : wire' = [wire EXCEPT ![s] = <<m, k>>]
  /\ UNCHANGED <<db, clients, pc, locals, sock, exc, alive, inbox, ncmds, hist,
                 loaded, notified, current, readq, rx, io, app>>

\* the client is closed while it waits for the server's answer (line 266)
ClientGivesUp(s) ==
  /\ alive[s] /\ seen[s] = 1
  /\ alive' = [alive EXCEPT ![s] = FALSE]
  /\ Quit(s)
  /\ UNCHANGED <<db, clients, pc, locals, sock, exc, inbox, ncmds, hist>>

\* handle_client, lines 61-62: mac = receive(client), then the lookup
LookupAsWritten(s) ==
  /\ pc[s] = "handshake" /\ wire[s] # <<>>
  /\ wire' = [wire EXCEPT ![s] = Tail(@)]
  /\ IF Binds(get_user_params, lookup_args)
     THEN /\ mac' = [mac EXCEPT ![s] = Head(wire[s])]
          /\ UNCHANGED <<clients, pc, id, address, key, key_changed, rename,
                         username, todo, relay, sock, exc>>
     ELSE Raise(s, "TypeError", clients, id[s])
  /\ UNCHANGED <<db, alive, inbox, ncmds, hist, loaded, notified, current, seen,
                 readq, rx, io, app>>

\* what the first recv(64) of listen gives: a version tag, no byte at all (the
\* peer closed), bytes that are not UTF-8, or nothing within 30 seconds
FirstReads == {"PeerChat_v1.1.0", "PeerChat_v1.1.1", "PeerChat_v1.0.0", "",
               "UnicodeDecodeError", "timeout"}

\* a variant that runs in debug mode
accepts_in_debug(first) ==
  /\ first \notin {"UnicodeDecodeError", "timeout"}
  /\ first \in {"PeerChat_v1.1.0", "PeerChat_v1.1.1"} \/ TRUE

\* listen, lines 229-232: the test that lets a connection in
accepts(first) ==
  /\ first \notin {"UnicodeDecodeError", "timeout"}
  /\ first \in {"PeerChat_v1.1.0", "PeerChat_v1.1.1"} \/ DEBUG

\* listen, lines 227-241, and the thread start of lines 248-251
listen_first(s, first) ==
  IF accepts(first)
  THEN Accept(s)
  ELSE /\ pc[s] = "idle" /\ ncmds < MaxFrames
       /\ \A t \in Sessions : t < s => pc[t] # "idle"
       /\ ncmds' = ncmds + 1
       /\ pc' = [pc EXCEPT ![s] = "refused"]
       /\ sock' = [sock EXCEPT ![s] = "closed"]
       /\ UNCHANGED <<db, clients, locals, exc, alive, inbox, hist, cvars>>

listen(s) ==
  /\ pc[s] = "idle"
  /\ \E first \in FirstReads : listen_first(s, first)

NextAsWritten ==
  \E s \in Sessions :
    \/ listen(s)
    \/ ClientIdentifies(s)
    \/ ClientGivesUp(s)
    \/ LookupAsWritten(s)
    \/ Disconnect(s)

SpecAsWritten == Init /\ [][NextAsWritten]_vars

\* ---- get_user_chats over a chat table that grows past LIMIT 50 ----
\* one more row in the table of the chat of users 1 and 2
AddRow ==
  /\ Len(msgs[<<1, 2>>]) < MaxRows
  /\ add_message_ok(msgs, <<1, 2>>, 1)
  /\ msgs' = add_message(msgs, <<1, 2>>, 1, TRUE)
  /\ UNCHANGED <<users, chats, clients, pc, locals, sock, alive, inbox, ncmds,
                 exc, hist, cvars>>

\* database.get_user_chats(user_id); the result is kept in todo[1]
Fetch ==
  /\ \E user_id \in DOMAIN users :
       todo' = [todo EXCEPT ![1] = get_user_chats(users, chats, msgs, user_id)]
  /\ UNCHANGED <<db, clients, pc, id, address, mac, key, key_changed, rename,
                 username, relay, sock, alive, inbox, ncmds, exc, hist, cvars>>

NextRows == AddRow \/ Fetch

SpecRows == Init /\ [][NextRows]_vars

\* ---- communicator.py: send and receive over one connection ----
\* The values sent: pickles of 63, 64, 65 and 128 bytes.  A pickle is modelled
\* by its length, its first byte and the STOP opcode "." that ends it.
Values == {<<63, "x">>, <<64, "x">>, <<65, "y">>, <<128, "y">>}

\* pickle.dumps(v)
dumps(v) == [i \in 1..v[1] |-> IF i = v[1] THEN "." ELSE v[2]]

\* pickle.loads(data): truncated or foreign bytes raise
loads(data) ==
  IF data # <<>> /\ data[Len(data)] = "." /\ data[1] \in {"x", "y"}
  THEN <<Len(data), data[1]>> ELSE <<0, "UnpicklingError">>

Digits == <<"0", "1", "2", "3", "4", "5", "6", "7", "8", "9">>

\* a variant that does not pad the header
length_header_bare(n) ==
  LET RECURSIVE str(_)
      str(m) == IF m < 10 THEN <<Digits[m + 1]>>
                ELSE Append(str(m \div 10), Digits[(m % 10) + 1])
  IN str(n)

\* lines 24-25: str(n).encode(), padded with spaces to HEADER bytes
length_header(n) ==
  LET RECURSIVE str(_)
      str(m) == IF m < 10 THEN <<Digits[m + 1]>>
                ELSE Append(str(m \div 10), Digits[(m % 10) + 1])
  IN str(n) \o [i \in 1..(HEADER - Len(str(n))) |-> " "]

\* lines 49-50: int(bytes.decode().strip()); -1 stands for the ValueError of
\* a text without a digit or with a byte that is not one
data_length_of(bytes) ==
  LET text == SelectSeq(bytes, LAMBDA b : b # " ")
      RECURSIVE int(_)
      int(t) == IF t = <<>> THEN 0
                ELSE 10 * int(SubSeq(t, 1, Len(t) - 1))
                     + ((CHOOSE d \in 1..10 : Digits[d] = t[Len(t)]) - 1)
  IN IF text = <<>> \/ \E i \in DOMAIN text : \A d \in 1..10 : Digits[d] # text[i]
     THEN -1 ELSE int(text)

\* send, lines 22-31
send(v) ==
  /\ Len(io.sent) < MaxQueued /\ rx.at # "raised"
  /\ wire' = [wire EXCEPT ![1] = @ \o length_header(Len(dumps(v))) \o dumps(v)]
  /\ io' = [io EXCEPT !.sent = Append(@, v)]
  /\ UNCHANGED <<db, clients, pc, locals, sock, exc, alive, inbox, ncmds, hist,
                 loaded, notified, current, seen, readq, rx, app>>

\* one recv of receive (lines 49-57) that returns the first k bytes of the
\* connection: recv returns at least one byte and at most bufsize, as many as
\* have arrived.  An exception ends the reader, and with it the connection.
recv(k) ==
  LET chunk == SubSeq(wire[1], 1, k)
      asked == IF rx.at = "header" THEN HEADER ELSE rx.data_length - Len(rx.data)
      data == rx.data \o chunk
      whole == rx.whole /\ k = asked
      rest == SubSeq(wire[1], k + 1, Len(wire[1]))
      returns(value) ==
        /\ io' = [io EXCEPT !.got = Append(@, [value |-> value, whole |-> whole])]
        /\ wire' = [wire EXCEPT ![1] = IF value \in Values THEN rest ELSE <<>>]
        /\ rx' = [at |-> IF value \in Values THEN "header" ELSE "raised",
                  data_length |-> 0, data |-> <<>>, pieces |-> 0, whole |-> TRUE]
  IN /\ rx.at \in {"header", "payload"}
     /\ k \in 1..asked /\ k <= Len(wire[1])
     /\ IF rx.at = "header"
        THEN IF data_length_of(chunk) = -1
             THEN returns(<<0, "ValueError">>)
             ELSE IF data_length_of(chunk) = 0
             THEN returns(loads(<<>>))
             ELSE /\ rx' = [at |-> "payload", data_length |-> data_length_of(chunk),
                            data |-> <<>>, pieces |-> 0, whole |-> whole]
                  /\ wire' = [wire EXCEPT ![1] = rest]
                  /\ UNCHANGED io
        ELSE IF Len(data) < rx.data_length
             THEN /\ rx' = [rx EXCEPT !.data = data, !.pieces = @ + 1, !.whole = whole]
                  /\ wire' = [wire EXCEPT ![1] = rest]
                  /\ UNCHANGED io
             ELSE returns(loads(data))
     /\ UNCHANGED <<db, clients, pc, locals, sock, exc, alive, inbox, ncmds, hist,
                    loaded, notified, current, seen, readq, app>>

\* The header arrives in every possible piece; a payload arrives in at most
\* MaxPieces pieces, each of one byte, of all but the last byte, or of all
\* that is missing.
receive ==
  /\ rx.at \in {"header", "payload"}
  /\ \E k \in 1..(2 * HEADER) :
       /\ rx.at = "payload" =>
            LET missing == rx.data_length - Len(rx.data) IN
            \/ k = missing
            \/ k \in {1, missing - 1} /\ rx.pieces + 1 < MaxPieces
       /\ recv(k)

NextCodec == (\E v \in Values : send(v)) \/ receive

SpecCodec == Init /\ [][NextCodec]_vars

\* ---- two handler threads write to one connection: send, lines 22-31, is
\* two calls of connection.send, and nothing orders the calls of two threads.
\* io.writing[t] is the pickle thread t has still to write. ----
\* send, lines 22-28: the header is written
send_header(t, v) ==
  /\ io.writing[t] = <<>> /\ Len(io.sent) < MaxQueued
  /\ wire' = [wire EXCEPT ![1] = @ \o length_header(Len(dumps(v)))]
  /\ io' = [io EXCEPT !.sent = Append(@, v), !.writing[t] = dumps(v)]
  /\ UNCHANGED <<db, clients, pc, locals, sock, exc, alive, inbox, ncmds, hist,
                 loaded, notified, current, seen, readq, rx, app>>

\* send, line 31: the pickle is written
send_payload(t) ==
  /\ io.writing[t] # <<>>
  /\ wire' = [wire EXCEPT ![1] = @ \o io.writing[t]]
  /\ io' = [io EXCEPT !.writing[t] = <<>>]
  /\ UNCHANGED <<db, clients, pc, locals, sock, exc, alive, inbox, ncmds, hist,
                 loaded, notified, current, seen, readq, rx, app>>

NextWriters ==
  \E t \in Sessions :
    \/ \E v \in Values : send_header(t, v)
    \/ send_payload(t)

SpecWriters == Init /\ [][NextWriters]_vars

\* ---- the client: one chat, its screen, its cache and the threads that touch
\* them (home_screen.py).  A text is <<"...">> and the null text is <<>>. ----
\* dict.update on a cache kept as a set of <<ciphertext, text>> pairs
update(saved_chat, pairs) ==
  {p \in saved_chat : \A q \in pairs : q[1] # p[1]} \cup pairs

\* what pq_ntru.decrypt does with a ciphertext: c1 was made for a key this
\* client no longer has or is corrupted, c2 decrypts
decrypt(message) ==
  IF message = "c1" THEN {"ValueError", "Exception"} ELSE {"ok"}

\* a variant that hands the exception on as the text
decrypt_message_leaks(message, outcome) ==
  <<message, <<IF outcome = "ok" THEN "text" ELSE outcome>> >>

\* main.decrypt_message, lines 63-82: the pair (ciphertext, text or null)
decrypt_message(message, outcome) ==
  <<message, IF outcome = "ok" THEN <<"text">> ELSE <<>> >>

\* a variant that returns a pair whatever pq_ntru.encrypt does
encrypt_message_always(message, outcome) ==
  <<"c3", <<message>> >>

\* main.encrypt_message, lines 47-60: the pair (ciphertext, text), or null
\* when pq_ntru.encrypt raises; the ciphertext is c3
encrypt_message(message, outcome) ==
  IF outcome = "ok" THEN <<"c3", <<message>> >> ELSE <<>>

\* MessageLabel.add_text, lines 511-522: the text of the label
add_text(text) == IF text = <<>> THEN "Unable to decrypt message" ELSE text[1]

\* a variant that skips only the ciphertexts cached with a text
messages_to_decrypt_again(messages, saved_chat) ==
  {messages[i] : i \in DOMAIN messages}
    \ {p[1] : p \in {q \in saved_chat : q[2] # <<>>}}

\* add_existing_chat, lines 236-237: the peer's ciphertexts of the history
\* that are not a key of the cache read from the file
messages_to_decrypt(messages, saved_chat) ==
  {messages[i] : i \in DOMAIN messages} \ {p[1] : p \in saved_chat}

\* HomeScreen.listen, lines 173-188, up to the open() of save_chat: the next
\* frame the server sends about the chat
home_listen ==
  /\ app.listen = "receive" /\ app.heard < MaxHeard
  /\ \/ \E history \in {<<>>, <<"c1">>, <<"c1", "c2">>} :
          /\ ~app.screen
          /\ \A i \in DOMAIN app.queue : app.queue[i].fn # "create_chat"
          /\ app' = [app EXCEPT !.heard = @ + 1,
                       !.queue = Append(@, [fn |-> "create_chat", arg |-> history,
                                            via |-> "listen"])]
     \/ \E message \in {"c1", "c2"} : \E outcome \in decrypt(message) :
          app' = IF ~app.screen
                 THEN [app EXCEPT !.heard = @ + 1, !.listen = "raised",
                         !.raised = @ \cup {[exc |-> "KeyError", on |-> "listen"]}]
                 ELSE [app EXCEPT !.heard = @ + 1, !.loading = TRUE,
                         !.applied = @ \cup {[what |-> "loading_messages", on |-> "listen"],
                                             [what |-> "saved_chat", on |-> "listen"]},
                         !.pool = @ \cup {[message |-> message, via |-> "live", at |-> app.heard]},
                         !.cache = update(@, {decrypt_message(message, outcome)}),
                         !.file = [whole |-> FALSE, map |-> {}],
                         !.listen = "dump", !.held = message]
  /\ UNCHANGED <<db, clients, pc, locals, sock, exc, alive, inbox, ncmds, hist,
                 loaded, notified, current, seen, readq, wire, rx, io>>

\* HomeScreen.add_existing_chat, lines 221-246, up to the open() for writing
add_existing_chat ==
  /\ app.loader = "started"
  /\ LET saved_chat == app.file.map
         batch == messages_to_decrypt(app.history, saved_chat)
         begun == [app EXCEPT !.loading = TRUE,
                     !.applied = @ \cup {[what |-> "loading_messages", on |-> "loader"]}]
     IN IF ~app.file.whole
        THEN app' = [begun EXCEPT !.loader = "raised",
                       !.raised = @ \cup {[exc |-> "EOFError", on |-> "loader"]}]
        ELSE IF batch = {}
        THEN app' = [begun EXCEPT !.local = saved_chat, !.loader = "tail"]
        ELSE \E outcome \in [batch -> {"ok", "ValueError", "Exception"}] :
               /\ \A message \in batch : outcome[message] \in decrypt(message)
               /\ app' = [begun EXCEPT
                            !.pool = @ \cup {[message |-> message, via |-> "bulk",
                                              at |-> app.heard] : message \in batch},
                            !.local = update(saved_chat,
                                        {decrypt_message(message, outcome[message]) :
                                         message \in batch}),
                            !.file = [whole |-> FALSE, map |-> {}],
                            !.loader = "dump"]
  /\ UNCHANGED <<db, clients, pc, locals, sock, exc, alive, inbox, ncmds, hist,
                 loaded, notified, current, seen, readq, wire, rx, io>>

\* ChatScreen.send_message._send, lines 408-434, up to the open() of save_chat
_send ==
  /\ app.screen /\ app.sender = "off" /\ app.heard < MaxHeard /\ ~app.loading
  /\ \E outcome \in {"ok", "Exception"} :
       LET encrypted_message == encrypt_message("hi", outcome)
           begun == [app EXCEPT !.heard = @ + 1,
                       !.encrypted = Append(@, outcome),
                       !.queue = Append(@, [fn |-> "add_message", arg |-> <<"hi">>,
                                            via |-> "send"])]
       IN app' = IF encrypted_message = <<>>
                 THEN [begun EXCEPT
                         !.queue = Append(@, [fn |-> "_raise", arg |-> <<>>,
                                              via |-> "send"])]
                 ELSE [begun EXCEPT
                         !.cache = update(@, {encrypted_message}),
                         !.applied = @ \cup {[what |-> "saved_chat", on |-> "sender"]},
                         !.out = @ \cup {[command |-> "send_message",
                                          message |-> encrypted_message[1]]},
                         !.file = [whole |-> FALSE, map |-> {}],
                         !.sender = "dump"]
  /\ UNCHANGED <<db, clients, pc, locals, sock, exc, alive, inbox, ncmds, hist,
                 loaded, notified, current, seen, readq, wire, rx, io>>

\* ChatScreen.save_chat from pickle.dump on (line 386; add_existing_chat line
\* 247) and what the thread does after it: listen lines 189-198,
\* add_existing_chat lines 248-268 (from line 251 when nothing was decrypted).
\* The chat is not the one on display, so the thread calls notify.  The hint
\* text of the input field (change_hint_text) is not part of the state.
save_chat(thread) ==
  /\ app[thread] = "dump" \/ (thread = "loader" /\ app.loader = "tail")
  /\ LET file == IF app[thread] # "dump" THEN app.file
                 ELSE [whole |-> TRUE,
                       map |-> IF thread = "loader" THEN app.local ELSE app.cache]
         notify == [fn |-> "notify", arg |-> <<>>, via |-> thread]
     IN app' =
          CASE thread = "sender" -> [app EXCEPT !.file = file, !.sender = "off"]
            [] thread = "listen" ->
                 [app EXCEPT !.file = file, !.listen = "receive", !.loading = FALSE,
                    !.applied = @ \cup {[what |-> "loading_messages", on |-> "listen"]},
                    !.queue = @ \o <<[fn |-> "add_message", arg |-> <<app.held>>,
                                      via |-> "live"], notify>>]
            [] thread = "loader" ->
                 [app EXCEPT !.file = file, !.loader = "off", !.loading = FALSE,
                    !.cache = IF app.loader = "dump" THEN file.map ELSE @,
                    !.applied = @ \cup (IF app.loader = "dump"
                                        THEN {[what |-> "saved_chat", on |-> "loader"]}
                                        ELSE {}),
                    !.queue = @ \o [i \in DOMAIN app.history |->
                                      [fn |-> "add_message", arg |-> <<app.history[i]>>,
                                       via |-> "bulk"]] \o <<notify>>]
  /\ UNCHANGED <<db, clients, pc, locals, sock, exc, alive, inbox, ncmds, hist,
                 loaded, notified, current, seen, readq, wire, rx, io>>

\* the main context runs the call at the head of its queue: create_chat
\* (lines 283-321, with ChatScreen.__init__ 357-367), add_message (438-491),
\* notify (323-331), raise_exc._raise (10-17)
mainthread ==
  /\ app.queue # <<>>
  /\ LET call == Head(app.queue)
         rest == [app EXCEPT !.queue = Tail(@)]
         found == {p \in app.cache : p[1] = call.arg[1]}
         text == IF call.via = "send" THEN call.arg
                 ELSE IF found = {} THEN <<>> ELSE (CHOOSE p \in found : TRUE)[2]
     IN app' =
          CASE call.fn = "create_chat" ->
                 IF ~app.file.whole
                 THEN [rest EXCEPT !.raised = @ \cup {[exc |-> "EOFError", on |-> "main"]}]
                 ELSE [rest EXCEPT !.screen = TRUE, !.cache = app.file.map,
                         !.applied = @ \cup {[what |-> "chat_screens", on |-> "main"],
                                             [what |-> "saved_chat", on |-> "main"]},
                         !.history = call.arg,
                         !.loader = IF call.arg # <<>> THEN "started" ELSE @]
            [] call.fn = "add_message" ->
                 [rest EXCEPT !.rendered = @ \cup {[message |-> call.arg[1],
                                                    text |-> add_text(text),
                                                    via |-> call.via]},
                    !.applied = @ \cup {[what |-> "chat", on |-> "main"]}]
            [] call.fn = "notify" ->
                 [rest EXCEPT !.applied = @ \cup {[what |-> "button", on |-> "main"]}]
            [] call.fn = "_raise" ->
                 [rest EXCEPT !.raised = @ \cup {[exc |-> "Unable to encrypt message",
                                                  on |-> "main"]}]
  /\ UNCHANGED <<db, clients, pc, locals, sock, exc, alive, inbox, ncmds, hist,
                 loaded, notified, current, seen, readq, wire, rx, io>>

\* the user closes the program and starts it again (main.py, lines 417-436):
\* the threads and all that is in memory are gone, the cache file stays
run ==
  /\ 0 < app.heard /\ app.heard < MaxHeard
  /\ app' = [app EXCEPT !.heard = @ + 1, !.screen = FALSE, !.loading = FALSE,
               !.queue = <<>>, !.cache = {}, !.listen = "receive", !.loader = "off",
               !.sender = "off", !.local = {}, !.history = <<>>, !.held = ""]
  /\ UNCHANGED <<db, clients, pc, locals, sock, exc, alive, inbox, ncmds, hist,
                 loaded, notified, current, seen, readq, wire, rx, io>>

NextApp ==
  \/ home_listen
  \/ add_existing_chat
  \/ _send
  \/ \E thread \in {"listen", "loader", "sender"} : save_chat(thread)
  \/ mainthread
  \/ run

SpecApp == Init /\ [][NextApp]_vars

\* ---- the client changes its username: the main context, the receive loop
\* and the server's handler on one connection.  app.up holds the frames on
\* their way to the server, app.down those on their way to the client,
\* app.reads who has read which frame.  A frame to the client is a str or a
\* dict. ----
\* HomeScreen.on_release_edit_username.on_release_change, lines 131-138
on_release_change ==
  /\ app.main = "home" /\ app.heard < MaxHeard
  /\ app' = [app EXCEPT !.heard = @ + 1, !.main = "username",
               !.up = Append(@, [command |-> "change_username", username |-> <<>>])]
  /\ UNCHANGED <<db, clients, pc, locals, sock, exc, alive, inbox, ncmds, hist,
                 loaded, notified, current, seen, readq, wire, rx, io>>

\* handle_client, lines 106-115, with get_username, lines 207-215: the
\* handler reads the next frame of the client
handle_change_username ==
  /\ app.up # <<>>
  /\ LET data == Head(app.up)
         rest == [app EXCEPT !.up = Tail(@)]
         str(value) == [type |-> "str", value |-> value]
     IN app' =
          IF app.server = "loop"
          THEN [rest EXCEPT !.server = "get_username",
                  !.down = Append(@, [type |-> "dict", value |-> data.command])]
          ELSE IF ~isalnum(Stripped(data.username))
          THEN [rest EXCEPT !.down = Append(@, str("invalid username"))]
          ELSE IF validate_username(users, data.username)
          THEN [rest EXCEPT !.down = Append(@, str("username accepted")),
                  !.server = "loop"]
          ELSE [rest EXCEPT !.down = Append(@, str("This username is already taken"))]
  /\ UNCHANGED <<db, clients, pc, locals, sock, exc, alive, inbox, ncmds, hist,
                 loaded, notified, current, seen, readq, wire, rx, io>>

\* HomeScreen.listen, lines 171-212, on the frames of a username change: the
\* echoed change_username ends the loop; a str has no key 'command'
HomeScreen_listen ==
  /\ app.listen = "receive" /\ app.down # <<>>
  /\ LET data == Head(app.down)
         read == [app EXCEPT !.down = Tail(@),
                    !.reads = Append(@, [by |-> "listen", frame |-> data])]
     IN app' = IF data.type = "str"
               THEN [read EXCEPT !.listen = "raised",
                       !.raised = @ \cup {[exc |-> "TypeError", on |-> "listen"]}]
               ELSE [read EXCEPT !.listen = "off"]
  /\ UNCHANGED <<db, clients, pc, locals, sock, exc, alive, inbox, ncmds, hist,
                 loaded, notified, current, seen, readq, wire, rx, io>>

\* UserNameScreen.on_text_validate_username_input, lines 360-382: the main
\* context sends the candidate and then blocks in receive; on `username
\* accepted` it closes the connection and the program connects again
\* (Splash, then Home.on_enter, which starts a receive loop)
on_text_validate_username_input ==
  /\ \/ /\ app.main = "username" /\ app.heard < MaxHeard
        /\ \E name \in Candidates :
             app' = [app EXCEPT !.heard = @ + 1, !.main = "answer",
                       !.up = Append(@, [command |-> "username", username |-> name])]
     \/ /\ app.main = "answer" /\ app.down # <<>>
        /\ LET message == Head(app.down)
               read == [app EXCEPT !.down = Tail(@),
                          !.reads = Append(@, [by |-> "main", frame |-> message])]
           IN app' = IF message.type = "dict"
                     THEN [read EXCEPT !.main = "raised",
                             !.raised = @ \cup {[exc |-> "AttributeError", on |-> "main"]}]
                     ELSE IF message.value = "username accepted"
                     THEN [read EXCEPT !.main = "home", !.listen = "receive",
                             !.up = <<>>, !.down = <<>>, !.server = "loop"]
                     ELSE [read EXCEPT !.main = "username"]
  /\ UNCHANGED <<db, clients, pc, locals, sock, exc, alive, inbox, ncmds, hist,
                 loaded, notified, current, seen, readq, wire, rx, io>>

NextRename ==
  \/ on_release_change
  \/ handle_change_username
  \/ HomeScreen_listen
  \/ on_text_validate_username_input

SpecRename == Init /\ [][NextRename]_vars

\* ======================= properties =======================

Ended(s) == pc[s] \in {"closed", "crashed"}

\* positions of the receive_message frames for message msg_id of chat_id in
\* what was written to connection t
RelayedTo(t, chat_id, msg_id) ==
  {i \in DOMAIN inbox[t] : /\ inbox[t][i].cmd = "receive_message"
                          /\ inbox[t][i].chat = chat_id
                          /\ inbox[t][i].msgs[1].message_id = msg_id}

FramesOf(m) ==
  UNION {{<<t, i>> : i \in RelayedTo(t, m.chat_id, m.msg_id)} : t \in Sessions}

\* send_message has returned (or failed) for message m
Handled(m) ==
  ~ \E s \in Sessions :
      pc[s] = "relay" /\ relay[s].chat_id = m.chat_id /\ relay[s].msg_id = m.msg_id

\* the handler that relayed m was ended by a failing socket
TransportFailed(m) ==
  m.by \in Sessions /\ exc[m.by] \in {"ConnectionResetError", "BrokenPipeError"}

\* C1: a send_message from A to another user B persists exactly one row; when
\* B was registered at the time the command was handled, exactly one
\* receive_message frame is written, to B's connection; when B was not, no
\* frame is written and the row is persisted unread; never a frame to A.
\* (Stated for B the other participant of the chat, and for the handlers that
\* no socket failure ended.)
SendMessageDeliversOnce ==
  /\ \A c \in DOMAIN msgs : Len(msgs[c]) = Cardinality({m \in sent : m.chat_id = c})
  /\ \A m \in sent :
       (/\ m.sender_id # m.peer_id
        /\ m.peer_id = OtherOf(m.chat_id, m.sender_id)
        /\ Handled(m) /\ ~TransportFailed(m)) =>
         /\ m.present => /\ Cardinality(FramesOf(m)) = 1
                         /\ \A f \in FramesOf(m) : id[f[1]] = m.peer_id
         /\ ~m.present => FramesOf(m) = {} /\ m.unread
         /\ \A f \in FramesOf(m) : id[f[1]] # m.sender_id

\* C2: a message persisted while its peer B was not registered is in the chat
\* object streamed to B, before `sync complete`, in every later sync of B (as
\* long as it is among the chat's MsgLimit newest rows).
OwedDeliveredBySync ==
  \A s \in Sessions : \A k \in DOMAIN inbox[s] :
    inbox[s][k].cmd = "sync complete" =>
      \A m \in owed[s] :
        \E j \in 1..(k - 1) :
          /\ inbox[s][j].cmd = "chat"
          /\ inbox[s][j].chat = m.chat_id
          /\ \E r \in DOMAIN inbox[s][j].msgs :
               /\ inbox[s][j].msgs[r].message_id = m.msg_id
               /\ inbox[s][j].msgs[r].sender_id = m.sender_id

OwedSyncCompleted ==
  \E s \in Sessions :
    /\ owed[s] # {}
    /\ \E k \in DOMAIN inbox[s] : inbox[s][k].cmd = "sync complete"

\* C3: once a handler thread has ended, for whatever reason, no registry entry
\* holds its connection, and the end of one thread ends no other thread.
NoStaleEntry ==
  \A s \in Sessions : Ended(s) => \A u \in DOMAIN clients : clients[u] # s

OnlyOwnThreadEnds ==
  \A s, t \in Sessions :
    (s # t /\ ~Ended(s) /\ Ended(s)' /\ ~Ended(t)) => ~Ended(t)'

EndedHandlerLeavesNoEntry == []NoStaleEntry /\ [][OnlyOwnThreadEnds]_vars

\* C4: when a read on the connection of s fails with end of file or a
\* connection reset, in whichever state s is reading, the handler ends with
\* the registry holding no entry for its user id nor for its connection, and
\* with the socket closed.
ReadFailureTearsDown ==
  [][\A s \in Sessions :
       (Reading(s) /\ exc[s] = "" /\ exc'[s] = "ConnectionResetError") =>
         /\ pc'[s] = "closed"
         /\ sock'[s] = "closed"
         /\ ~Present(clients', id[s])
         /\ \A u \in DOMAIN clients' : clients'[u] # s]_vars

RegisteredSessionDisconnected ==
  \E s \in Sessions :
    /\ exc[s] = "ConnectionResetError" /\ pc[s] = "closed"
    /\ \E u \in DOMAIN newest : newest[u] = s

\* C5: whenever the session that registered a user id last is still open and
\* in its command loop, the registry maps the user id to its connection, also
\* after an older session of that user has closed.
NewestSessionStaysRegistered ==
  \A u \in DOMAIN newest :
    (pc[newest[u]] = "active" /\ sock[newest[u]] = "open") =>
      (Present(clients, u) /\ clients[u] = newest[u])

\* C6: the test `peer_id in clients` and the fetch clients[peer_id] of a relay
\* are atomic: a handler that passed the test never fails on a missing key.
RelayDecisionAtomic ==
  [][\A s \in Sessions : pc[s] = "relay" => exc'[s] # "KeyError"]_vars

\* C7: from the change_username echo until the user is registered again, no
\* relayed frame (receive_message, create_chat, change_key) is written to the
\* renaming connection.
InRename(s) ==
  \/ pc[s] = "rename_del"
  \/ rename[s] /\ pc[s] \in {"username", "commit"}

NoRelayDuringRename ==
  [][\A s \in Sessions :
       InRename(s) =>
         \A i \in (Len(inbox[s]) + 1)..Len(inbox'[s]) :
           inbox'[s][i].cmd \notin {"receive_message", "create_chat", "change_key"}]_vars

\* C8: a message sent with peer_id equal to the sender's id is persisted read
\* and no receive_message frame for it is written to any connection, whether
\* or not the sender is registered.
SelfChatNeverRelayed ==
  \A m \in sent :
    m.sender_id = m.peer_id =>
      /\ ~m.unread
      /\ ~msgs[m.chat_id][m.msg_id].unread
      /\ FramesOf(m) = {}

SelfChatSentWhileRegistered ==
  \E m \in sent : m.sender_id = m.peer_id /\ m.present

\* C9: read_messages{chat_id} leaves every row of that chat read, changes
\* nothing else in that table nor any other chat's table, and writes no frame.
ReadMessagesClearsOneChat ==
  [][\A s \in Sessions : \A c \in DOMAIN msgs :
       ReadMessagesWith(s, c) =>
         /\ DOMAIN msgs' = DOMAIN msgs
         /\ Len(msgs'[c]) = Len(msgs[c])
         /\ \A i \in DOMAIN msgs[c] :
              msgs'[c][i] = [msgs[c][i] EXCEPT !.unread = FALSE]
         /\ \A d \in DOMAIN msgs : d # c => msgs'[d] = msgs[d]
         /\ inbox' = inbox]_vars

ReadClearedOneOfTwoChats ==
  \E m \in sent :
    /\ m.unread /\ ~msgs[m.chat_id][m.msg_id].unread
    /\ \E d \in DOMAIN msgs : d # m.chat_id /\ \E i \in DOMAIN msgs[d] : msgs[d][i].unread

\* C10: the unread flag of a row goes from true to false only in the handling
\* of a read_messages command of the chat's participant who did not send that
\* row.
UnreadClearedByRecipientOnly ==
  [][\A c \in DOMAIN msgs : \A i \in DOMAIN msgs[c] :
       (msgs[c][i].unread /\ ~msgs'[c][i].unread) =>
         \E s \in Sessions :
           /\ ReadMessagesWith(s, c)
           /\ id[s] # msgs[c][i].sender_id
           /\ id[s] \in {c[1], c[2]}]_vars

\* the session s leaves get_username with an accepted name (line 213-214)
Accepts(s) == pc[s] = "username" /\ pc'[s] = "commit"

\* C11 as stated: a username is accepted at most once, so the usernames that
\* the users of the initial store hold are rejected in every later submission.
UsernameAcceptedOnce ==
  [][\A s \in Sessions :
       Accepts(s) => \A i \in DOMAIN Users0 : Users0[i].username # username'[s]]_vars

NoTwoRowsShareUsername ==
  \A i, j \in DOMAIN users : users[i].username = users[j].username => i = j

\* C11, amended: while a user row holds username n, every submission of n by a
\* session (registering or renaming) is answered `This username is already
\* taken`, the session stays in the loop and no row changes; and no two user
\* rows ever hold the same username.
HeldUsernameRejected ==
  /\ []NoTwoRowsShareUsername
  /\ [][\A s \in Sessions : \A n \in Candidates :
          (GetUsernameWith(s, n) /\ \E i \in DOMAIN users : users[i].username = n) =>
            /\ inbox'[s] = Append(inbox[s], Frame("taken"))
            /\ pc'[s] = "username"
            /\ users' = users]_vars

HeldUsernameSubmitted ==
  \E s \in Sessions : \E i \in DOMAIN inbox[s] : inbox[s][i].cmd = "taken"

\* C12: of two submissions of the same free username racing before the first
\* is committed, one only is accepted: never are two sessions past
\* `username accepted` with the same name and their commits still to come.
NameRaceAcceptsOne ==
  \A s, t \in Sessions :
    (s # t /\ pc[s] = "commit" /\ pc[t] = "commit") => username[s] # username[t]

\* C13: the handshake looks the user up and answers: a handler that has ended
\* other than by its connection closing has written `registered` or
\* `unregistered` (and then the identity) to its connection.
HandshakeAnswersLookup ==
  \A s \in Sessions :
    pc[s] = "crashed" =>
      \E i \in DOMAIN inbox[s] : inbox[s][i].cmd \in {"registered", "unregistered"}

\* the positions of the frames a step appends to connection t
Appended(t) == (Len(inbox[t]) + 1)..Len(inbox'[t])

\* the chats of the sync of s whose peer is another user, registered on t
NotifiedChats(s, t) ==
  {i \in DOMAIN todo[s] : /\ todo[s][i].peer_id # id[s]
                          /\ Present(clients, todo[s][i].peer_id)
                          /\ clients[todo[s][i].peer_id] = t}

\* the sync of s ran to `sync complete`
SyncCompletes(s) == pc[s] = "sync" /\ pc'[s] = "active"

PhaseAt(at, renaming) ==
  CASE at = "idle" -> 0
    [] at = "handshake" -> 1
    [] at \in {"username", "commit"} /\ ~renaming -> 2
    [] at = "sync" -> 3
    [] at \in {"closed", "crashed"} -> 5
    [] OTHER -> 4

Phase(s) == PhaseAt(pc[s], rename[s])

PhaseSteps == {<<0, 1>>, <<1, 2>>, <<1, 3>>, <<2, 4>>, <<3, 4>>,
               <<1, 5>>, <<2, 5>>, <<3, 5>>, <<4, 5>>}

\* a frame with this command has been written to connection s
HasFrame(ib, s, cmd) == \E i \in DOMAIN ib[s] : ib[s][i].cmd = cmd

\* clients[u] becomes s in this step
Inserted(s, u) ==
  /\ Present(clients', u) /\ clients'[u] = s
  /\ ~(Present(clients, u) /\ clients[u] = s)

\* the handler of s reads one command of the command loop
ReadsCommand(s) ==
  /\ Command(s)
  /\ \/ CreateChat(s)
     \/ ChangeUsernameEcho(s)
     \/ SearchPeer(s)
     \/ SendMessage(s)
     \/ ReadMessages(s)

\* C15: a session moves Handshaking, Authenticating, Syncing (registered users
\* only), Active, Closed in that order and never back; its registry entry is
\* first written after the (id, username) pair and, for a registered user,
\* `sync complete` were sent, and commands are read only after that.
SessionPhasesInOrder ==
  [][\A s \in Sessions :
       /\ (pc'[s] # pc[s] \/ rename'[s] # rename[s]) =>
            /\ Phase(s)' # Phase(s) => <<Phase(s), Phase(s)'>> \in PhaseSteps
            /\ Phase(s)' = 2 => HasFrame(inbox', s, "unregistered")
            /\ Phase(s)' = 3 => HasFrame(inbox', s, "registered")
            /\ (Phase(s) < 4 /\ Phase(s)' = 4) =>
                 /\ Inserted(s, id'[s])
                 /\ HasFrame(inbox', s, "identity")
                 /\ HasFrame(inbox', s, "registered") => HasFrame(inbox', s, "sync complete")
                 /\ Phase(s) = 3 <=> HasFrame(inbox', s, "registered")
       /\ clients' # clients =>
            ((\E u \in DOMAIN users' : Inserted(s, u)) => Phase(s)' = 4)
       /\ Phase(s) # 4 => ~ReadsCommand(s)]_vars

BothKindsOfSessionActive ==
  \E s, t \in Sessions :
    /\ pc[s] = "active" /\ HasFrame(inbox, s, "sync complete")
    /\ pc[t] = "active" /\ HasFrame(inbox, t, "unregistered")

\* the rows of the chats table in which the user is user_1 or user_2
ChatsOfUser(cs, user_id) ==
  {i \in DOMAIN cs : cs[i].user_1 = user_id \/ cs[i].user_2 = user_id}

\* the frames a step appends to connection t, in order
AppendedFrames(t) == SubSeq(inbox'[t], Len(inbox[t]) + 1, Len(inbox'[t]))

\* a user created on this connection is sent no chat object and no sentinel
NoSyncForNewUser ==
  \A s \in Sessions :
    HasFrame(inbox, s, "unregistered") =>
      ~HasFrame(inbox, s, "chat") /\ ~HasFrame(inbox, s, "sync complete")

\* C16: the sync of a registered user sends one chat object for every chat in
\* which the user is user_1 or user_2, each once, and then one `sync complete`;
\* a user created on the connection is sent neither.
SyncStreamsEachChatOnce ==
  /\ []NoSyncForNewUser
  /\ [][\A s \in Sessions :
          /\ (pc[s] = "handshake" /\ pc'[s] = "sync") =>
               /\ \A i \in ChatsOfUser(chats', id'[s]) :
                    Cardinality({j \in DOMAIN todo'[s] :
                                   todo'[s][j].chat = chats'[i].chat_id}) = 1
               /\ \A j \in DOMAIN todo'[s] :
                    /\ todo'[s][j].cmd = "chat"
                    /\ \E i \in ChatsOfUser(chats', id'[s]) :
                         todo'[s][j].chat = chats'[i].chat_id
          /\ SyncCompletes(s) =>
               AppendedFrames(s) = todo[s] \o <<Frame("sync complete")>>]_vars

TwoChatsStreamed ==
  \E s \in Sessions :
    /\ pc[s] = "active"
    /\ Cardinality({i \in DOMAIN inbox[s] : inbox[s][i].cmd = "chat"}) = 2
    /\ HasFrame(inbox, s, "sync complete")

\* the message ids of a sequence of rows
IdsOf(rows) == {rows[i].message_id : i \in DOMAIN rows}

\* C17: a chat object of get_user_chats carries at most 50 rows: the rows of
\* the chat with the highest message ids (all of them when there are fewer),
\* in ascending order of message id.
ChatCarriesNewestRows ==
  [][\A s \in Sessions :
       todo'[s] # todo[s] =>
         \A j \in DOMAIN todo'[s] :
           LET rows == msgs[todo'[s][j].chat]
               m == todo'[s][j].msgs
               carried == IdsOf(m)
           IN /\ Len(m) = IF Len(rows) < MsgLimit THEN Len(rows) ELSE MsgLimit
              /\ \A i \in DOMAIN m : \E r \in DOMAIN rows : rows[r] = m[i]
              /\ \A r \in DOMAIN rows :
                   rows[r].message_id \notin carried =>
                     \A i \in DOMAIN m : rows[r].message_id < m[i].message_id
              /\ \A i, k \in DOMAIN m : i < k => m[i].message_id < m[k].message_id]_vars

OlderRowsLeftOut ==
  /\ Len(msgs[<<1, 2>>]) > MsgLimit
  /\ todo[1] # <<>>
  /\ Len(todo[1][1].msgs) = MsgLimit
  /\ todo[1][1].msgs[MsgLimit].message_id = Len(msgs[<<1, 2>>])

\* the two participants of a row of the chats table
Pair(chat) == {chat.user_1, chat.user_2}

\* C18: the chats table holds at most one chat for an unordered pair of users,
\* whichever of the two sent create_chat and however often.
OneChatPerPair ==
  \A i, j \in DOMAIN chats : Pair(chats[i]) = Pair(chats[j]) => i = j

\* the create_chat frames a step appends to connection t
CreateChatFrames(t) ==
  {i \in Appended(t) : inbox'[t][i].cmd = "create_chat"}

\* create_chat for this peer ran to its end on the handler of s
ChatCreated(s, peer_id) ==
  CreateChatWith(s, peer_id) /\ chats' # chats /\ pc'[s] = "active"

\* C19: create_chat by user A for peer B writes one create_chat frame with
\* is_user_1 = true and B's id, username and key to the requesting connection,
\* one with is_user_1 = false and A's id, username and key to B's registered
\* connection when B is another user with a registry entry, and nothing else,
\* also when A has more than one session.
CreateChatNotifiesBoth ==
  [][\A s \in Sessions : \A peer_id \in DOMAIN users :
       ChatCreated(s, peer_id) =>
         LET chat_id == chat_id_of(id[s], peer_id)
             told == IF Present(clients, peer_id) /\ peer_id # id[s]
                     THEN {clients[peer_id]} ELSE {}
         IN /\ \A i \in Appended(s) :
                 inbox'[s][i] = CreateChatFrame(chat_id, TRUE, peer_id)
            /\ Cardinality(CreateChatFrames(s)) = 1
            /\ \A t \in told :
                 /\ \A i \in Appended(t) :
                      inbox'[t][i] = CreateChatFrame(chat_id, FALSE, id[s])
                 /\ Cardinality(CreateChatFrames(t)) = 1
            /\ \A t \in Sessions \ ({s} \cup told) : Appended(t) = {}]_vars

\* every row of every chat table was sent by user_1 or user_2 of its chat
RowsSentByParticipants ==
  \A c \in DOMAIN chats : \A i \in DOMAIN msgs[chats[c].chat_id] :
    msgs[chats[c].chat_id][i].sender_id \in Pair(chats[c])

\* C20: the sender_id of every row of a chat table is one of the chat's two
\* participants, and send_message by a user who is not a participant of the
\* chat it names stores no row.
SenderIsParticipant ==
  /\ []RowsSentByParticipants
  /\ [][\A s \in Sessions : \A c \in DOMAIN chats : \A peer_id \in DOMAIN users :
          (SendMessageWith(s, chats[c].chat_id, peer_id) /\ id[s] \notin Pair(chats[c]))
            => msgs' = msgs]_vars

OutsiderSendRefused ==
  \E s \in Sessions :
    /\ id[s] = 3 /\ exc[s] = "IntegrityError"
    /\ Len(chats) = 1 /\ 3 \notin Pair(chats[1])
    /\ Len(msgs[chats[1].chat_id]) = 1

\* C21: a connection whose first bytes are not a whitelisted version tag, or
\* that sends nothing in time, is closed by listen: `Connected` is not sent,
\* no handler is started and no user row or registry entry is made for it.
BadTagRefused ==
  /\ [](\A s \in Sessions :
          pc[s] = "refused" =>
            /\ inbox[s] = <<>> /\ sock[s] = "closed" /\ id[s] = None
            /\ \A u \in DOMAIN clients : clients[u] # s)
  /\ [][\A s \in Sessions :
          /\ \A first \in FirstReads \ {"PeerChat_v1.1.0", "PeerChat_v1.1.1"} :
               (pc[s] = "idle" /\ listen_first(s, first)) =>
                 /\ pc'[s] = "refused" /\ sock'[s] = "closed"
                 /\ inbox' = inbox /\ users' = users /\ clients' = clients
          /\ pc[s] = "refused" => pc'[s] = "refused" /\ wire'[s] = wire[s]]_vars

OneRefusedOneAccepted ==
  \E s, t \in Sessions : pc[s] = "refused" /\ pc[t] = "crashed"

\* C22: what receive returns from a connection that holds the bytes written
\* by send is the value sent, for payloads of 63, 64, 65 and 128 bytes and
\* for frames queued one behind the other, in the order sent.
RoundTrip ==
  /\ Len(io.got) <= Len(io.sent)
  /\ \A i \in DOMAIN io.got : io.got[i].whole => io.got[i].value = io.sent[i]

TwoQueuedFramesReturned ==
  /\ Len(io.got) = 2 /\ io.got[1].whole /\ io.got[2].whole
  /\ io.sent[1][1] = HEADER /\ io.sent[2][1] = HEADER - 1
  /\ io.got[2].value = <<HEADER - 1, "x">>

\* C23: when the transport delivers the header and the payload of a frame in
\* smaller pieces, receive still returns the value of that frame and leaves
\* the next frame untouched.
PiecesReassembled ==
  \A i \in DOMAIN io.got : io.got[i].value = io.sent[i]

\* C24: the commands of one connection are handled in the order sent: of two
\* send_message commands of a connection in one chat the first gets the
\* smaller message id, and a connection that is sent the receive_message
\* frames of both is sent the frame of the first one first.
CommandsHandledInOrder ==
  /\ [](\A m1, m2 \in sent :
          (m1.by = m2.by /\ m1.by \in Sessions /\ m1.chat_id = m2.chat_id
             /\ m1.msg_id < m2.msg_id) =>
            \A t \in Sessions :
              \A i \in RelayedTo(t, m1.chat_id, m1.msg_id) :
                \A j \in RelayedTo(t, m2.chat_id, m2.msg_id) : i < j)
  /\ [][\A m \in sent' \ sent : \A n \in sent :
          n.chat_id = m.chat_id => n.msg_id < m.msg_id]_vars

TwoMessagesRelayedInOrder ==
  \E m1, m2 \in sent : \E t \in Sessions :
    /\ m1.by = m2.by /\ m1.by \in Sessions /\ m1.chat_id = m2.chat_id
    /\ m1.msg_id < m2.msg_id /\ m1.present /\ m2.present
    /\ RelayedTo(t, m1.chat_id, m1.msg_id) # {}
    /\ RelayedTo(t, m2.chat_id, m2.msg_id) # {}

\* C25: the handshakes of client and server compose: a client that was sent
\* `Connected`, has written its identity and key and waits for the answer is
\* never left waiting on a handler that has ended without answering and
\* without closing the connection.
HandshakeNeverStuck ==
  \A s \in Sessions :
    (alive[s] /\ seen[s] = 1 /\ sock[s] = "open"
       /\ ~HasFrame(inbox, s, "registered") /\ ~HasFrame(inbox, s, "unregistered"))
      => pc[s] # "crashed"

\* C26: every change of UI-owned client state (the chat screens, a screen's
\* loading flag, its in-memory cache, its widgets, the notification state)
\* made for the receive loop or for a history-loading thread is applied on
\* the main context, never by the thread itself.
UiStateOnMainOnly ==
  \A a \in app.applied : a.on \notin {"listen", "loader"}

\* C27: decrypting a ciphertext made for another key, or a corrupted one,
\* returns the pair (ciphertext, null) and no exception, and the message is
\* shown with the same fixed text whether it came in a receive_message frame
\* or in the history of a chat.
DecryptFailureShowsPlaceholder ==
  /\ \A message \in {"c1", "c2"} : \A outcome \in decrypt(message) :
       outcome # "ok" => decrypt_message(message, outcome) = <<message, <<>> >>
  /\ \A r \in app.rendered :
       (r.via \in {"live", "bulk"} /\ "ok" \notin decrypt(r.message))
         => r.text = "Unable to decrypt message"

BothPathsShowPlaceholder ==
  \E r1, r2 \in app.rendered :
    /\ r1.via = "live" /\ r2.via = "bulk"
    /\ "ok" \notin decrypt(r1.message) /\ "ok" \notin decrypt(r2.message)
    /\ r1.text = "Unable to decrypt message" /\ r2.text = r1.text
    /\ \E p \in app.pool : p.message = r1.message /\ p.via = "live"
    /\ \E p \in app.pool : p.message = r2.message /\ p.via = "bulk"

\* C28: when the encryption of an outgoing message fails, encrypt_message
\* returns the null value instead of raising; the sending thread writes no
\* send_message frame and adds no entry to the chat's in-memory cache or to
\* its file, and the error is handed to the main context, which raises it.
EncryptFailureContained ==
  /\ [](/\ encrypt_message("hi", "Exception") = <<>>
        /\ \A x \in app.raised :
             x.exc = "Unable to encrypt message" => x.on = "main")
  /\ [][(/\ Len(app'.encrypted) > Len(app.encrypted)
         /\ app'.encrypted[Len(app'.encrypted)] = "Exception")
          => /\ app'.out = app.out
             /\ app'.cache = app.cache
             /\ app'.file = app.file
             /\ app'.sender = app.sender
             /\ app'.queue[Len(app'.queue)].fn = "_raise"]_vars

EncryptFailureRaised ==
  /\ app.encrypted = <<"Exception">>
  /\ [exc |-> "Unable to encrypt message", on |-> "main"] \in app.raised
  /\ app.out = {}
  /\ \A p \in app.cache \cup app.file.map : p[1] # "c3"
  /\ \E r \in app.rendered : r.via = "send"

CacheFileWholeAndCurrent ==
  /\ [](app.file.whole)
  /\ [][/\ (app.listen = "dump" /\ app'.listen = "receive" /\ app'.heard = app.heard)
             => (\E p \in app'.file.map : p[1] = app.held)
        /\ (app.sender = "dump" /\ app'.sender = "off" /\ app'.heard = app.heard)
             => (\E p \in app'.file.map : p[1] = "c3")]_vars

\* C31: get_username accepts a candidate exactly when what is left of it
\* after removing `_`, `@` and space is non-empty and alphanumeric and the
\* name is unused; an empty candidate and one of whitelisted punctuation only
\* are answered `invalid username`, leave the session in the loop and create
\* or change no user row.
UsernameValidation ==
  /\ [](\A i \in DOMAIN users :
          \E j \in DOMAIN users[i].username : users[i].username[j] \in Alnum)
  /\ [][\A s \in Sessions :
          pc[s] = "username" =>
            \A n \in {<<>>, <<"_">>, <<"@", " ">>, <<"c">>, <<"c", "_">>, <<"c", "!">>,
                      <<"a">>} :
              GetUsernameWith(s, n) =>
                LET rest == SelectSeq(n, LAMBDA ch : ch \notin {"_", "@", " "})
                    valid == rest # <<>> /\ \A j \in DOMAIN rest : rest[j] \in {"a", "b", "c"}
                    unused == \A i \in DOMAIN users : users[i].username # n
                    answer == inbox'[s][Len(inbox'[s])].cmd
                IN /\ Len(inbox'[s]) = Len(inbox[s]) + 1
                   /\ answer = "username accepted" <=> (valid /\ unused)
                   /\ ~valid => /\ answer = "invalid username"
                                /\ pc'[s] = "username"
                                /\ users' = users /\ username' = username]_vars

PunctuatedNameRegistered ==
  \E s \in Sessions : \E i, j \in DOMAIN inbox[s] :
    /\ i < j
    /\ inbox[s][i].cmd = "invalid username"
    /\ inbox[s][j].cmd = "username accepted"
    /\ \E u \in DOMAIN users : users[u].username = <<"c", "_">>

\* C32: no message is lost between the sync and the command loop: a session
\* of user B that is in its command loop has been sent every message that
\* the other participant of one of B's chats had persisted by then, in a chat
\* object of its sync stream or in a receive_message frame (the relay of the
\* message may still be under way; handlers ended by a failing socket aside).
NoMessageLostInSync ==
  \A s \in Sessions : \A m \in sent :
    (/\ pc[s] = "active" /\ id[s] = m.peer_id
     /\ \A t \in Sessions : (t # s /\ id[t] = id[s]) => pc[t] \in {"idle", "closed"}
     /\ m.peer_id = OtherOf(m.chat_id, m.sender_id) /\ m.sender_id # m.peer_id
     /\ Handled(m) /\ ~TransportFailed(m))
      => \/ RelayedTo(s, m.chat_id, m.msg_id) # {}
         \/ \E j \in DOMAIN inbox[s] :
              /\ inbox[s][j].cmd = "chat" /\ inbox[s][j].chat = m.chat_id
              /\ \E r \in DOMAIN inbox[s][j].msgs :
                   inbox[s][j].msgs[r].message_id = m.msg_id

\* C33: frames written to one connection by two threads are never
\* interleaved: whenever no thread is inside send, the bytes written to the
\* connection are a sequence of whole frames, each a 64-byte header directly
\* followed by the pickle of the length it gives, and they are the frames of
\* the values sent.
FramesNeverInterleaved ==
  LET RECURSIVE frames(_)
      frames(bytes) ==
        IF bytes = <<>> THEN <<>>
        ELSE LET n == IF Len(bytes) < HEADER THEN -1
                      ELSE data_length_of(SubSeq(bytes, 1, HEADER))
             IN IF n < 1 \/ Len(bytes) < HEADER + n THEN << <<0, "torn">> >>
                ELSE <<loads(SubSeq(bytes, HEADER + 1, HEADER + n))>>
                       \o frames(SubSeq(bytes, HEADER + n + 1, Len(bytes)))
      got == frames(wire[1])
  IN (\A t \in Sessions : io.writing[t] = <<>>)
       => /\ Len(got) = Len(io.sent)
          /\ \A i \in DOMAIN got : got[i] \in Values
          /\ \A v \in Values :
               Cardinality({i \in DOMAIN got : got[i] = v})
                 = Cardinality({i \in DOMAIN io.sent : io.sent[i] = v})

\* C34: a transport failure on a peer's connection while a handler relays to
\* it (receive_message, create_chat or change_key written to a broken peer
\* socket) does not end the session of the user whose handler it is: the
\* handler goes on, its own socket stays open, its presence entry stays and
\* the persisted messages stay.
PeerFailureSparesSender ==
  [][\A s \in Sessions :
       (/\ exc'[s] # exc[s]
        /\ exc'[s] \in {"ConnectionResetError", "BrokenPipeError"}
        /\ alive[s] /\ alive'[s])
         => /\ pc'[s] \notin {"closed", "crashed"}
            /\ sock'[s] = "open"
            /\ (Present(clients, id[s]) /\ clients[id[s]] = s)
                 => (Present(clients', id[s]) /\ clients'[id[s]] = s)
            /\ \A c \in DOMAIN msgs : Len(msgs'[c]) >= Len(msgs[c])]_vars

\* C35: the user row is stored before the client can act on `username
\* accepted`: a client that was sent `username accepted` while registering,
\* closed its socket and connects again with the same ip and MAC address is
\* never answered `unregistered` again, and no two user rows hold the same
\* (ip, mac).
RowStoredBeforeAccepted ==
  /\ [](\A i, j \in DOMAIN users :
          (users[i].ip = users[j].ip /\ users[i].mac = users[j].mac) => i = j)
  /\ [][\A t \in Sessions :
          (pc[t] = "handshake" /\ pc'[t] = "username")
            => ~ \E s \in Sessions :
                   /\ s # t /\ ~alive[s] /\ ~rename[s]
                   /\ HasFrame(inbox, s, "username accepted")
                   /\ address[s] = address'[t] /\ mac[s] = mac'[t]]_vars

\* C36: a receive_message frame is written only to a connection of the
\* chat's other participant: the user of the connection is one of the two
\* participants of the chat named in the frame and is not the sender of the
\* message, whatever peer_id the send_message command carried.
RelayOnlyToParticipant ==
  \A t \in Sessions : \A i \in DOMAIN inbox[t] :
    (inbox[t][i].cmd = "receive_message" /\ id[t] # None)
      => /\ id[t] \in {inbox[t][i].chat[1], inbox[t][i].chat[2]}
         /\ id[t] # inbox[t][i].msgs[1].sender_id

\* C37: no message is delivered twice to one connection: a persisted message
\* is at most once in what was written to a connection, counting the chat
\* objects of its sync stream and the receive_message frames relayed to it.
NoDuplicateDelivery ==
  \A t \in Sessions : \A c \in DOMAIN msgs : \A k \in DOMAIN msgs[c] :
    LET streamed == {i \in DOMAIN inbox[t] :
                       /\ inbox[t][i].cmd = "chat" /\ inbox[t][i].chat = c
                       /\ \E r \in DOMAIN inbox[t][i].msgs :
                            inbox[t][i].msgs[r].message_id = k}
    IN Cardinality(streamed) + Cardinality(RelayedTo(t, c, k)) <= 1

\* C38: the receive loop looks up the screen of a chat for an inbound message
\* only after the create_chat of that chat has been applied by the main
\* context: a step in which listen handles a receive_message of a chat whose
\* create_chat it has received finds the screen of the chat.
ScreenExistsBeforeReceive ==
  [][LET announced == \/ app.screen
                      \/ \E i \in DOMAIN app.queue : app.queue[i].fn = "create_chat"
         looked_up == /\ app.listen = "receive"
                      /\ app'.listen \in {"dump", "raised"}
     IN looked_up /\ announced => app.screen]_vars

\* C39: a cache entry added by a live receive or by a send is never lost: when
\* no thread is in the middle of writing the file, the file holds an entry
\* under every ciphertext the receive loop has received and under the
\* ciphertext of every message sent, and so does the mapping in memory of the
\* chat's screen, also when the bulk load of the chat's history ran meanwhile.
CacheEntriesNeverLost ==
  LET added == {p.message : p \in {q \in app.pool : q.via = "live"}}
                 \cup {o.message : o \in app.out}
      settled == /\ app.file.whole
                 /\ \A thread \in {"listen", "loader", "sender"} : app[thread] # "dump"
  IN settled =>
       \A message \in added :
         /\ \E p \in app.file.map : p[1] = message
         /\ app.screen => \E p \in app.cache : p[1] = message

\* C40: at most one client thread reads from the connection at any time: the
\* main context is never blocked in the read of the answer to a candidate
\* username while the receive loop is still in receive, the echoed
\* change_username is read by the receive loop and every answer by the main
\* context.
OneReaderOfTheSocket ==
  /\ ~(app.main = "answer" /\ app.listen = "receive")
  /\ \A i \in DOMAIN app.reads :
       app.reads[i].by = (IF app.reads[i].frame.type = "dict" THEN "listen" ELSE "main")

====
